---- MODULE Spec2Model ----
(***************************************************************************)
(* Request-security layer of cimoy-parent-api: the cryptographic key       *)
(* manager (security/crypto.js), the JWT issuer/verifier (security/jwt.js),*)
(* the two-factor manager, the CSRF guard, the WAF and the IP block list   *)
(* of the rate limiter.  Each component has its own specification          *)
(* (SpecKeys, SpecJwt, SpecTwoFactor, SpecCsrf, SpecWaf); the variables of *)
(* the components a specification does not drive stay at their idle value. *)
(*                                                                         *)
(* Random material (crypto.randomBytes, generateKeyPairSync) is modelled   *)
(* as fresh: a counter hands out identifiers that were never used before.  *)
(* Hashes and signatures are modelled symbolically (a signature is valid   *)
(* exactly under the key that made it, a hash is injective).               *)
(***************************************************************************)
EXTENDS Integers, Sequences, FiniteSets, TLC

VARIABLES
  isLocal,        \* config.isLocal
  keys,           \* KeyManager.keys: role -> the in-memory key record (<<>> is null)
  keyFiles,       \* keys/crypto/<role>-key.json
  backupFiles,    \* keys/crypto/<role>-key.<id>.backup.json
  nextKeyId,      \* source of fresh key ids / key material
  kmNow,          \* Date.now() of the key manager, in days
  rotationLog,    \* what the last rotateKeysIfNeeded call logged, per role
  sealed,         \* the last encryptValue call: what it was given and returned
  opened,         \* the last decryptValue call: what it was given and returned
  nextIv,         \* source of fresh initialization vectors
  privateKey,     \* jwt.js: let privateKey
  publicKey,      \* jwt.js: let publicKey (<<>> is null)
  isRSA,          \* jwt.js: const isRSA, computed once when the module loads
  hsTakesPem,     \* whether the installed jsonwebtoken signs HS256 with a PEM string
  lastKeyRotation,\* jwt.js: let lastKeyRotation, in minutes
  jwtNow,         \* Date.now() of the token module, in minutes
  nextJwtKey,     \* source of fresh signing material
  priorKey,       \* history: the signing key the last rotation replaced
  issued,         \* tokens handed to clients and still in their hands
  authResponse,   \* what authJWT answered to the request just handled
  refreshResult,  \* what refreshTokens did with the token just presented
  backupCodes,    \* TwoFactorAuth.backupCodes: Map userId -> array of hashes
  nextCode,       \* source of fresh backup codes
  usedCodes,      \* history: <<userId, code>> verified since the user's last set
  tfaResult,      \* what the last TwoFactorAuth call returned
  secretSetup,    \* the last generateSecret call: its user, secret and return value
  nextSecret,     \* source of fresh TOTP secrets and of their IVs
  csrfResponse,   \* what verifyCsrfToken did with the request just handled
  wafEnabled,     \* WAF.isEnabled
  activeRules,    \* WAF.activeRules
  allowedCountries, \* WAF.allowedCountries
  requestCounts,  \* WAF.requestCounts: ip -> {timestamps, badRequests, totalRequests}
  blockedIPs,     \* WAF.blockedIPs
  blockList,      \* rate-limiter.middleware.js: const blockList
  wafNow,         \* Date.now() of the WAF, in milliseconds
  wafBursts,      \* number of request bursts handled so far
  wafPacing,      \* the paced traffic under way: <<>>, or <<address, seconds left>>
  wafResponse,    \* what ipBlocker / wafMiddleware answered to the last request
  redisLink,      \* the Redis client: "none", "connecting", "up" or "down"
  isRedisAvailable, \* rate-limiter.middleware.js: let isRedisAvailable
  limiterStore,   \* limiter -> the store it was created with
  memoryHits,     \* the in-process stores' counters: <<limiter, key>> -> hits
  redisHits,      \* the counters kept in Redis: <<limiter, key>> -> hits
  limBursts,      \* number of request bursts the limiters handled so far
  limResponse,    \* what a limiter did with the last burst
  pipeReq,        \* the request travelling through the middleware chain
  pipeStage,      \* the position in its chain of the stage that is due (0: none)
  pipeRan,        \* the stages that handled the request, in the order they ran
  pipeResponse,   \* the response sent for the request (<<>>: none)
  pipeUser,       \* req.user
  pipeRouteRan,   \* whether the route's handler ran
  pipeRequests,   \* number of requests that arrived so far
  wafScanned,     \* the single request the WAF scanned last (<<>>: none)
  loginAttempts,  \* routes/auth.routes.js: const loginAttempts, ip -> count
  loginResponse,  \* what POST /login answered and logged for the last request
  kc,             \* the KidsConnectionManager, the sockets io() made for it, the
                  \* timers pending and the handlers waiting at an await
  kcDisconnected, \* disconnect() was called, and connect() not yet again by the app
  kcReconnects    \* the last connect() was the reconnect timer's, after a disconnect()

keyVars == <<keys, keyFiles, backupFiles, nextKeyId, kmNow, rotationLog, sealed, opened,
            nextIv>>

jwtVars == <<privateKey, publicKey, isRSA, hsTakesPem, lastKeyRotation, jwtNow,
             nextJwtKey, priorKey, issued, authResponse, refreshResult>>

tfaVars == <<backupCodes, nextCode, usedCodes, tfaResult, secretSetup, nextSecret>>

csrfVars == <<csrfResponse>>

wafVars == <<wafEnabled, activeRules, allowedCountries, requestCounts, blockedIPs, blockList, wafNow,
             wafBursts, wafPacing, wafResponse>>

limVars == <<redisLink, isRedisAvailable, limiterStore, memoryHits, redisHits,
             limBursts, limResponse>>

pipeVars == <<pipeReq, pipeStage, pipeRan, pipeResponse, pipeUser, pipeRouteRan,
              pipeRequests>>

scanVars == <<wafScanned>>

loginVars == <<loginAttempts, loginResponse>>

connVars == <<kc, kcDisconnected, kcReconnects>>

vars == <<isLocal, keyVars, jwtVars, tfaVars, csrfVars, wafVars, limVars, pipeVars,
          scanVars, loginVars, connVars>>

-----------------------------------------------------------------------------
(* The value a component's variables keep while another component's         *)
(* specification runs: the component right after construction.              *)

NoResponse ==
  [handled |-> FALSE, token |-> <<>>, status |-> 0, code |-> "", next |-> FALSE,
   user |-> <<>>, newTokens |-> {}, roles |-> {}, refresh |-> <<>>]

NoRefreshResult ==
  [handled |-> FALSE, token |-> <<>>, ok |-> FALSE, error |-> "", pair |-> <<>>]

JwtIdle ==
  /\ privateKey = [kind |-> "rsa", id |-> 1]
  /\ publicKey = <<[kind |-> "rsa", id |-> 1]>>
  /\ isRSA = TRUE
  /\ hsTakesPem = FALSE
  /\ lastKeyRotation = 0
  /\ jwtNow = 0
  /\ nextJwtKey = 2
  /\ priorKey = <<>>
  /\ issued = {}
  /\ authResponse = NoResponse
  /\ refreshResult = NoRefreshResult

NoTfaResult == [op |-> "none", userId |-> 0, code |-> 0, result |-> FALSE]

NoSecretSetup ==
  [handled |-> FALSE, userId |-> "", ok |-> FALSE, generated |-> <<>>,
   returned |-> <<>>]

TfaIdle ==
  /\ backupCodes = <<>>
  /\ nextCode = 1
  /\ usedCodes = {}
  /\ tfaResult = NoTfaResult
  /\ secretSetup = NoSecretSetup
  /\ nextSecret = 1

NoCsrfResponse ==
  [handled |-> FALSE, method |-> "", cookie |-> <<>>, header |-> <<>>, status |-> 0,
   message |-> "", next |-> FALSE]

CsrfIdle == csrfResponse = NoCsrfResponse

NoWafResponse ==
  [handled |-> FALSE, ip |-> "", wasBanned |-> FALSE, status |-> 0, message |-> "",
   code |-> "", next |-> FALSE]

\* process.env.ALLOWED_COUNTRIES is not set: the list the constructor falls back to
DefaultCountries == {"ID", "SG", "MY", "US"}

WafIdle ==
  /\ wafEnabled = ~isLocal
  /\ allowedCountries = DefaultCountries
  /\ activeRules = [sqlInjection |-> TRUE, xss |-> TRUE, commandInjection |-> TRUE,
                    path_traversal |-> TRUE, ddos |-> TRUE, geoblocking |-> ~isLocal]
  /\ requestCounts = <<>>
  /\ blockedIPs = {}
  /\ blockList = {}
  /\ wafNow = 0
  /\ wafBursts = 0
  /\ wafPacing = <<>>
  /\ wafResponse = NoWafResponse

\* the limiters created while the rate limiter module loads
LoadLimiters == {"apiLimiter", "authLimiter", "sensitiveLimiter"}

LimPassed == [next |-> TRUE, failed |-> FALSE, status |-> 0, code |-> ""]

NoLimResponse ==
  [handled |-> FALSE, limiter |-> "", key |-> "", user |-> <<>>, store |-> "",
   linkUp |-> FALSE, before |-> 0, sent |-> 0, passed |-> 0, counted |-> "",
   verdict |-> LimPassed]

LimIdle ==
  /\ redisLink = "none"
  /\ isRedisAvailable = FALSE
  /\ limiterStore = [l \in LoadLimiters |-> "memory"]
  /\ memoryHits = <<>>
  /\ redisHits = <<>>
  /\ limBursts = 0
  /\ limResponse = NoLimResponse

NoPipeRequest == [ip |-> "", method |-> "", path |-> <<>>]

PipeIdle ==
  /\ pipeReq = NoPipeRequest
  /\ pipeStage = 0
  /\ pipeRan = <<>>
  /\ pipeResponse = <<>>
  /\ pipeUser = <<>>
  /\ pipeRouteRan = FALSE
  /\ pipeRequests = 0

ScanIdle == wafScanned = <<>>

NoLoginResponse ==
  [handled |-> FALSE, ip |-> "", status |-> 0, attempts |-> 0, events |-> <<>>,
   severity |-> "", alert |-> FALSE]

LoginIdle ==
  /\ loginAttempts = <<>>
  /\ loginResponse = NoLoginResponse

\* KidsConnectionManager's constructor: no socket, no timers
NewManager ==
  [socket |-> <<>>, isConnected |-> FALSE, reconnectTimer |-> <<>>,
   pingTimer |-> <<>>, sockets |-> <<>>, timers |-> {}, awaiting |-> {},
   nextId |-> 1]

ConnIdle ==
  /\ kc = NewManager
  /\ kcDisconnected = FALSE
  /\ kcReconnects = FALSE

NoSealed == [handled |-> FALSE, value |-> <<>>, context |-> <<>>, out |-> <<>>]

NoOpened ==
  [handled |-> FALSE, changed |-> "", context |-> <<>>, ok |-> FALSE, out |-> <<>>]

CipherIdle ==
  /\ sealed = NoSealed
  /\ opened = NoOpened
  /\ nextIv = 1

KeysIdle ==
  /\ CipherIdle
  /\ keys = [r \in {"encryption", "hmac", "pbkdf"} |-> <<>>]
  /\ keyFiles = [r \in {"encryption", "hmac", "pbkdf"} |-> [kind |-> "missing"]]
  /\ backupFiles = {}
  /\ nextKeyId = 1
  /\ kmNow = 0
  /\ rotationLog = [r \in {"encryption", "hmac", "pbkdf"} |-> "none"]

-----------------------------------------------------------------------------
(* Key manager: src/src/security/crypto.js, class KeyManager               *)

Roles == {"encryption", "hmac", "pbkdf"}

\* bytes requested by initialize() for each role
KeyLengthBytes(keyType) ==
  IF keyType = "encryption" THEN 32 ELSE 64

rotationInterval == 90

\* the last day the model's clock reaches
MaxDay == 92

TornFile == [kind |-> "torn"]
JsonFile(keyData) == [kind |-> "json", data |-> keyData]

\* generateKeyId: 8 fresh random bytes
generateKeyId(counter) == counter

\* the keyData object built by generateNewKey
NewKeyData(counter, keyLength, now) ==
  [id |-> generateKeyId(counter), value |-> counter, createdAt |-> now,
   rotatedAt |-> <<>>, length |-> keyLength * 8]

\* an isKeyRotationNeeded that does not look at the age of the key
isKeyRotationNeeded_AnyAge(keyType) == keys[keyType] # <<>>

isKeyRotationNeeded(keyType) ==
  IF keys[keyType] = <<>> THEN FALSE
  ELSE (kmNow - keys[keyType][1].createdAt) > rotationInterval

\* Outcomes of the file writes of one role's rotation:
\*   "ok"           every writeFileSync succeeds
\*   "backupFail"   the first backup write (line 178) throws
\*   "keyWriteFail" the key-file write in generateNewKey (line 125) throws, file untouched
\*   "keyWriteTorn" the same write throws after truncating the file
\*   "stampFail"    the second backup write (line 186) throws
WriteOutcomes == {"ok", "backupFail", "keyWriteFail", "keyWriteTorn", "stampFail"}

BackupName(keyType, keyData) == <<keyType, keyData.id>>

\* a generateNewKey that never assigns this.keys[keyType]
GenerateNewKeyMemory_NoPromote(oldSlot, keyData) == oldSlot

\* generateNewKey: memory is assigned (line 121) before the file is written (line 125)
GenerateNewKeyMemory(oldSlot, keyData) == <<keyData>>

GenerateNewKeyFile(oldFile, keyData, outcome) ==
  CASE outcome = "keyWriteFail" -> oldFile
    [] outcome = "keyWriteTorn" -> TornFile
    [] OTHER -> JsonFile(keyData)

\* one iteration of the for-loop of rotateKeysIfNeeded, for a role that needs rotation
RotatedSlot(keyType, outcome, counter) ==
  IF outcome = "backupFail" THEN keys[keyType]
  ELSE GenerateNewKeyMemory(keys[keyType],
         NewKeyData(counter, keys[keyType][1].length \div 8, kmNow))

RotatedFile(keyType, outcome, counter) ==
  IF outcome = "backupFail" THEN keyFiles[keyType]
  ELSE GenerateNewKeyFile(keyFiles[keyType],
         NewKeyData(counter, keys[keyType][1].length \div 8, kmNow), outcome)

\* the backup file of the outgoing key after the iteration (<<>>: not written)
RotatedBackup(keyType, outcome) ==
  LET oldKey == keys[keyType][1] IN
  CASE outcome = "backupFail" -> <<>>
    [] outcome = "ok" -> <<[oldKey EXCEPT !.rotatedAt = <<kmNow>>]>>
    [] OTHER -> <<oldKey>>

RotationLogLine(outcome) ==
  IF outcome = "ok" THEN "rotated" ELSE "error"

\* position of a role in the for-in order of this.keys
RoleSeq == <<"encryption", "hmac", "pbkdf">>

RoleIndex(r) == CHOOSE i \in 1..3 : RoleSeq[i] = r

\* fresh-id counter value used by role r when the roles in `needing` rotate in order
CounterFor(r, needing, outcome) ==
  nextKeyId + Cardinality({q \in needing :
      RoleIndex(q) < RoleIndex(r) /\ outcome[q] # "backupFail"})

KeysInit ==
  /\ LimIdle /\ PipeIdle /\ ScanIdle /\ LoginIdle
  /\ isLocal \in BOOLEAN
  /\ ConnIdle
  /\ JwtIdle /\ TfaIdle /\ CsrfIdle /\ WafIdle
  /\ kmNow = 0
  /\ keys = [r \in Roles |->
       <<NewKeyData(RoleIndex(r), KeyLengthBytes(r), 0)>>]
  /\ keyFiles = [r \in Roles |->
       JsonFile(NewKeyData(RoleIndex(r), KeyLengthBytes(r), 0))]
  /\ backupFiles = {}
  /\ nextKeyId = 4
  /\ rotationLog = [r \in Roles |-> "none"]
  /\ CipherIdle

\* the clock moves on
KmAdvanceTime ==
  \E d \in {1, rotationInterval} :
    /\ kmNow + d <= MaxDay
    /\ kmNow' = kmNow + d
    /\ UNCHANGED <<isLocal, keys, keyFiles, backupFiles, nextKeyId, rotationLog>>
    /\ UNCHANGED <<sealed, opened, nextIv>>
    /\ UNCHANGED <<jwtVars, tfaVars, csrfVars, wafVars, limVars, pipeVars, scanVars, loginVars, connVars>>

\* rotateKeysIfNeeded over every role, outcome[r] being what the file writes of
\* role r come to
RotateKeysWith(outcome) ==
       LET needing == {r \in Roles : isKeyRotationNeeded(r)} IN
       /\ \A r \in Roles \ needing : outcome[r] = "ok"
       /\ keys' = [r \in Roles |->
            IF r \in needing
            THEN RotatedSlot(r, outcome[r], CounterFor(r, needing, outcome))
            ELSE keys[r]]
       /\ keyFiles' = [r \in Roles |->
            IF r \in needing
            THEN RotatedFile(r, outcome[r], CounterFor(r, needing, outcome))
            ELSE keyFiles[r]]
       /\ backupFiles' =
            {b \in backupFiles :
               ~ \E r \in needing : /\ outcome[r] # "backupFail"
                                    /\ b.name = BackupName(r, keys[r][1])}
            \cup {[name |-> BackupName(r, keys[r][1]),
                   data |-> RotatedBackup(r, outcome[r])[1]] :
                    r \in {q \in needing : outcome[q] # "backupFail"}}
       /\ nextKeyId' = nextKeyId
            + Cardinality({q \in needing : outcome[q] # "backupFail"})
       /\ rotationLog' = [r \in Roles |->
            IF r \in needing THEN RotationLogLine(outcome[r]) ELSE "none"]

\* the 24 h timer fires
KmRotateKeysIfNeeded ==
  /\ ~isLocal
  /\ \E outcome \in [Roles -> WriteOutcomes] : RotateKeysWith(outcome)
  /\ UNCHANGED <<isLocal, kmNow, sealed, opened, nextIv>>
  /\ UNCHANGED <<jwtVars, tfaVars, csrfVars, wafVars, limVars, pipeVars, scanVars, loginVars, connVars>>

KeysNext ==
  \/ KmAdvanceTime
  \/ KmRotateKeysIfNeeded

SpecKeys == KeysInit /\ [][KeysNext]_vars

-----------------------------------------------------------------------------
(* encryptValue / decryptValue and KeyManager.encrypt / decrypt             *)
(* (src/src/security/crypto.js).  A string is a sequence of UTF-16 code     *)
(* units, a Buffer a sequence of bytes.  AES-256-GCM is symbolic: a         *)
(* ciphertext byte opens only under the key and IV that made it, and the    *)
(* authentication tag is the tuple of everything it covers.  base64 and     *)
(* JSON texts are written as the value they encode, tagged with the         *)
(* encoding.                                                                *)

JsString(units) == [type |-> "string", units |-> units]
JsBuffer(bytes) == [type |-> "buffer", bytes |-> bytes]

IsContinuation(bytes, i) == i <= Len(bytes) /\ bytes[i] \in 128..191

\* the bytes of one code point
Utf8OfCodePoint(cp) ==
  CASE cp < 128 -> <<cp>>
    [] cp < 2048 -> <<192 + (cp \div 64), 128 + (cp % 64)>>
    [] cp < 65536 ->
         <<224 + (cp \div 4096), 128 + ((cp \div 64) % 64), 128 + (cp % 64)>>
    [] OTHER ->
         <<240 + (cp \div 262144), 128 + ((cp \div 4096) % 64),
           128 + ((cp \div 64) % 64), 128 + (cp % 64)>>

\* Buffer.from(string, 'utf8'): a surrogate pair is one code point, a surrogate
\* without its partner is written as U+FFFD
RECURSIVE Utf8Encode(_)
Utf8Encode(units) ==
  IF units = <<>> THEN <<>>
  ELSE LET u == units[1] IN
       IF u \in 55296..56319 /\ Len(units) >= 2 /\ units[2] \in 56320..57343
       THEN Utf8OfCodePoint(65536 + (u - 55296) * 1024 + (units[2] - 56320))
              \o Utf8Encode(SubSeq(units, 3, Len(units)))
       ELSE IF u \in 55296..57343
       THEN Utf8OfCodePoint(65533) \o Utf8Encode(Tail(units))
       ELSE Utf8OfCodePoint(u) \o Utf8Encode(Tail(units))

\* the length of the well-formed sequence, or of the ill-formed part that one
\* U+FFFD replaces, at the head of the bytes; cp is the code point decoded
Utf8Head(bytes) ==
  LET b == bytes[1]
      second == IF Len(bytes) >= 2 THEN bytes[2] ELSE 0
      Bad(n) == [len |-> n, cp |-> 65533]
  IN  CASE b < 128 -> [len |-> 1, cp |-> b]
        [] b \in 194..223 ->
             IF IsContinuation(bytes, 2)
             THEN [len |-> 2, cp |-> (b - 192) * 64 + (second - 128)]
             ELSE Bad(1)
        [] b \in 224..239 ->
             IF ~(/\ IsContinuation(bytes, 2)
                  /\ (b = 224 => second >= 160)
                  /\ (b = 237 => second <= 159))
             THEN Bad(1)
             ELSE IF ~IsContinuation(bytes, 3) THEN Bad(2)
             ELSE [len |-> 3,
                   cp |-> (b - 224) * 4096 + (second - 128) * 64 + (bytes[3] - 128)]
        [] b \in 240..244 ->
             IF ~(/\ IsContinuation(bytes, 2)
                  /\ (b = 240 => second >= 144)
                  /\ (b = 244 => second <= 143))
             THEN Bad(1)
             ELSE IF ~IsContinuation(bytes, 3) THEN Bad(2)
             ELSE IF ~IsContinuation(bytes, 4) THEN Bad(3)
             ELSE [len |-> 4,
                   cp |-> (b - 240) * 262144 + (second - 128) * 4096
                            + (bytes[3] - 128) * 64 + (bytes[4] - 128)]
        [] OTHER -> Bad(1)

\* buffer.toString('utf8'): ill-formed bytes come out as U+FFFD
RECURSIVE Utf8Decode(_)
Utf8Decode(bytes) ==
  IF bytes = <<>> THEN <<>>
  ELSE LET head == Utf8Head(bytes)
           rest == Utf8Decode(SubSeq(bytes, head.len + 1, Len(bytes)))
       IN  IF head.cp >= 65536
           THEN <<55296 + ((head.cp - 65536) \div 1024),
                  56320 + ((head.cp - 65536) % 1024)>> \o rest
           ELSE <<head.cp>> \o rest

\* buffer.toString('base64'), Buffer.from(text, 'base64')
ToBase64(bytes) == [encoding |-> "base64", of |-> bytes]
FromBase64(text) == text.of

\* a context object: its own properties in insertion order, as <<name, value>>;
\* a value is <<v>>, or <<>> for undefined
Undefined == <<>>

ContextInputs ==
  {<<>>,
   <<<<"userId", <<1>>>>>>,
   <<<<"userId", <<2>>>>>>,
   <<<<"userId", <<1>>>>, <<"deviceId", Undefined>>>>,
   <<<<"deviceId", Undefined>>>>}

\* JSON.stringify(object): properties whose value is undefined are left out
ObjectToJson(object) ==
  LET Written(property) == property[2] # Undefined
  IN  [encoding |-> "json", of |-> SelectSeq(object, Written)]

\* the additional authenticated data handed to setAAD (<<>>: setAAD is not called)
AadOf(associatedData) ==
  IF Len(associatedData) > 0 THEN <<ObjectToJson(associatedData)>> ELSE <<>>

\* cipher.update + cipher.final, and cipher.getAuthTag
GcmCipherText(keyValue, iv, dataBuffer) ==
  [i \in 1..Len(dataBuffer) |-> [key |-> keyValue, iv |-> iv, at |-> i,
                                 byte |-> dataBuffer[i]]]

GcmAuthTag(keyValue, iv, aad, cipherText) ==
  [key |-> keyValue, iv |-> iv, aad |-> aad, over |-> cipherText]

\* KeyManager.encrypt(data, associatedData) with the random iv drawn
encrypt(data, associatedData, iv) ==
  LET keyValue == keys["encryption"][1].value
      dataBuffer == IF data.type = "string" THEN Utf8Encode(data.units) ELSE data.bytes
      encrypted == GcmCipherText(keyValue, iv, dataBuffer)
  IN  [data |-> ToBase64(encrypted),
       iv |-> ToBase64(iv),
       authTag |-> ToBase64(GcmAuthTag(keyValue, iv, AadOf(associatedData), encrypted)),
       keyId |-> keys["encryption"][1].id,
       algorithm |-> "aes-256-gcm",
       hasAssociatedData |-> TRUE]

Decrypted(bytes) == [ok |-> TRUE, bytes |-> bytes]
DecryptionFailed == [ok |-> FALSE, bytes |-> <<>>]

\* a tag check that accepts a tag made under any key
TagAccepted_AnyKey(keyValue, encryptedData, aad) ==
  LET tag == FromBase64(encryptedData.authTag)
  IN  /\ tag.iv = FromBase64(encryptedData.iv)
      /\ tag.aad = aad
      /\ tag.over = FromBase64(encryptedData.data)

\* decipher.final(): the tag set with setAuthTag is the tag of what was processed
TagAccepted(keyValue, encryptedData, aad) ==
  FromBase64(encryptedData.authTag) =
    GcmAuthTag(keyValue, FromBase64(encryptedData.iv), aad,
               FromBase64(encryptedData.data))

\* KeyManager.decrypt(encryptedData, associatedData)
decrypt(encryptedData, associatedData) ==
  IF encryptedData.algorithm # "aes-256-gcm" THEN DecryptionFailed
  ELSE IF keys["encryption"] = <<>> THEN DecryptionFailed
  ELSE LET keyValue == keys["encryption"][1].value
           cipherText == FromBase64(encryptedData.data)
       IN  IF ~TagAccepted(keyValue, encryptedData, AadOf(associatedData))
           THEN DecryptionFailed
           ELSE Decrypted([i \in 1..Len(cipherText) |-> cipherText[i].byte])

\* encryptValue(value, context): JSON.stringify of the encrypt result
encryptValue(value, context, iv) ==
  [encoding |-> "json", of |-> encrypt(value, context, iv)]

\* decryptValue(encryptedValue, context): the string, or the error thrown
decryptValue(encryptedValue, context) ==
  LET decrypted == decrypt(encryptedValue.of, context)
  IN  IF decrypted.ok
      THEN [ok |-> TRUE, out |-> <<JsString(Utf8Decode(decrypted.bytes))>>]
      ELSE [ok |-> FALSE, out |-> <<>>]

\* the values handed to encryptValue: '', 'A', 'é', '€', a string ending in a
\* surrogate without partner, an emoji (a surrogate pair); and Buffers: empty,
\* 'A', 'é', the byte ff, a truncated '€'
ValueInputs ==
  {JsString(<<>>), JsString(<<65>>), JsString(<<233>>), JsString(<<8364>>),
   JsString(<<65, 55296>>), JsString(<<55357, 56832>>),
   JsBuffer(<<>>), JsBuffer(<<65>>), JsBuffer(<<195, 169>>), JsBuffer(<<255>>),
   JsBuffer(<<226, 130>>)}

\* the most encryptValue calls of one run
MaxSeals == 2

\* what a holder of an encrypted value can hand to decryptValue: the value as it
\* was returned, or with a byte of the ciphertext, of the IV or of the tag changed
ChangedByte(encryptedValue, part) ==
  LET e == encryptedValue.of
      cipherText == FromBase64(e.data)
      changedText == [i \in 1..Len(cipherText) |->
                        IF i = 1
                        THEN [cipherText[i] EXCEPT !.byte = (@ + 1) % 256]
                        ELSE cipherText[i]]
      tag == FromBase64(e.authTag)
  IN  CASE part = "data" ->
             [encryptedValue EXCEPT !.of.data = ToBase64(changedText)]
        [] part = "iv" ->
             [encryptedValue EXCEPT !.of.iv = ToBase64(FromBase64(e.iv) + 1)]
        [] part = "authTag" ->
             [encryptedValue EXCEPT !.of.authTag = ToBase64([tag EXCEPT !.key = 0])]
        [] OTHER -> encryptedValue

CipherInit ==
  /\ isLocal \in BOOLEAN
  /\ ConnIdle
  /\ JwtIdle /\ TfaIdle /\ CsrfIdle /\ WafIdle
  /\ LimIdle /\ PipeIdle /\ ScanIdle /\ LoginIdle
  /\ kmNow = 0
  /\ keys = [r \in Roles |-> <<NewKeyData(RoleIndex(r), KeyLengthBytes(r), 0)>>]
  /\ keyFiles = [r \in Roles |->
       JsonFile(NewKeyData(RoleIndex(r), KeyLengthBytes(r), 0))]
  /\ backupFiles = {}
  /\ nextKeyId = 4
  /\ rotationLog = [r \in Roles |-> "none"]
  /\ CipherIdle

CipherEncryptValue ==
  /\ nextIv <= MaxSeals
  /\ \E value \in ValueInputs, context \in ContextInputs :
       sealed' = [handled |-> TRUE, value |-> value, context |-> context,
                  out |-> <<encryptValue(value, context, nextIv)>>]
  /\ nextIv' = nextIv + 1
  /\ opened' = NoOpened
  /\ UNCHANGED <<keys, keyFiles, backupFiles, nextKeyId, kmNow, rotationLog>>
  /\ UNCHANGED <<isLocal, jwtVars, tfaVars, csrfVars, wafVars, limVars, pipeVars,
                 scanVars, loginVars, connVars>>

CipherDecryptValue ==
  /\ sealed.handled
  /\ \E part \in {"none", "data", "iv", "authTag"}, context \in ContextInputs :
       /\ part = "data" => Len(FromBase64(sealed.out[1].of.data)) > 0
       /\ LET result == decryptValue(ChangedByte(sealed.out[1], part), context)
          IN  opened' = [handled |-> TRUE, changed |-> part, context |-> context,
                         ok |-> result.ok, out |-> result.out]
  /\ UNCHANGED <<keys, keyFiles, backupFiles, nextKeyId, kmNow, rotationLog, sealed,
                 nextIv>>
  /\ UNCHANGED <<isLocal, jwtVars, tfaVars, csrfVars, wafVars, limVars, pipeVars,
                 scanVars, loginVars, connVars>>

CipherNext == CipherEncryptValue \/ CipherDecryptValue

SpecCipher == CipherInit /\ [][CipherNext]_vars

\* C24 as stated: decryptValue of an unchanged encrypted value, under the context
\* it was encrypted with, returns the value that was encrypted (for a Buffer: the
\* text of its bytes); and decryptValue fails whenever a byte of the ciphertext,
\* of the IV or of the tag was changed or the context differs.
C24_SealedValueRoundTrip ==
  opened.handled =>
    /\ (opened.changed = "none" /\ opened.context = sealed.context)
         => /\ opened.ok
            /\ IF sealed.value.type = "string"
               THEN opened.out[1].units = sealed.value.units
               ELSE Utf8Encode(opened.out[1].units) = sealed.value.bytes
    /\ (opened.changed # "none" \/ opened.context # sealed.context) => ~opened.ok

\* the well-formed part of C24: text without unpaired surrogates, and Buffers
\* holding well-formed UTF-8, come back as they were given
C24_WellFormedTextRoundTrip ==
  (/\ opened.handled
   /\ opened.changed = "none"
   /\ opened.context = sealed.context
   /\ sealed.value \in {JsString(<<>>), JsString(<<65>>), JsString(<<233>>),
                        JsString(<<8364>>), JsString(<<55357, 56832>>),
                        JsBuffer(<<>>), JsBuffer(<<65>>), JsBuffer(<<195, 169>>)})
    => /\ opened.ok
       /\ IF sealed.value.type = "string"
          THEN opened.out[1].units = sealed.value.units
          ELSE Utf8Encode(opened.out[1].units) = sealed.value.bytes

\* a context other than the one given to encryptValue was accepted by decryptValue
C24_OtherContextAccepted ==
  /\ opened.handled
  /\ opened.changed = "none"
  /\ opened.context # sealed.context
  /\ opened.ok

\* a changed byte of the ciphertext, of the IV or of the tag always makes
\* decryptValue fail
C24_ChangedByteRefused ==
  (opened.handled /\ opened.changed # "none") => ~opened.ok

-----------------------------------------------------------------------------
\* Encrypted values kept across key rotations (SpecCipherRotation): encryptValue and
\* decryptValue of the key manager whose timer rotates the keys

\* the values and contexts handed to encryptValue: 'A' and the Buffer of 'é', with
\* the first two contexts
KeptValues == {JsString(<<65>>), JsBuffer(<<195, 169>>)}

KeptContexts == {c \in ContextInputs : Len(c) <= 1}

KeptEncryptValue ==
  /\ nextIv <= MaxSeals
  /\ keys["encryption"] # <<>>
  /\ \E value \in KeptValues, context \in KeptContexts :
       sealed' = [handled |-> TRUE, value |-> value, context |-> context,
                  out |-> <<encryptValue(value, context, nextIv)>>]
  /\ nextIv' = nextIv + 1
  /\ opened' = NoOpened
  /\ UNCHANGED <<keys, keyFiles, backupFiles, nextKeyId, kmNow, rotationLog>>
  /\ UNCHANGED <<isLocal, jwtVars, tfaVars, csrfVars, wafVars, limVars, pipeVars,
                 scanVars, loginVars, connVars>>

\* decryptValue of the value as encryptValue returned it
KeptDecryptValue ==
  /\ sealed.handled
  /\ \E context \in KeptContexts :
       LET result == decryptValue(sealed.out[1], context)
       IN  opened' = [handled |-> TRUE, changed |-> "none", context |-> context,
                      ok |-> result.ok, out |-> result.out]
  /\ UNCHANGED <<keys, keyFiles, backupFiles, nextKeyId, kmNow, rotationLog, sealed,
                 nextIv>>
  /\ UNCHANGED <<isLocal, jwtVars, tfaVars, csrfVars, wafVars, limVars, pipeVars,
                 scanVars, loginVars, connVars>>

\* the 24 h timer fires; the writes of the files of the hmac and pbkdf keys succeed
KeptRotateKeysIfNeeded ==
  /\ ~isLocal
  /\ \E written \in WriteOutcomes :
       RotateKeysWith([r \in Roles |-> IF r = "encryption" THEN written ELSE "ok"])
  /\ UNCHANGED <<isLocal, kmNow, sealed, opened, nextIv>>
  /\ UNCHANGED <<jwtVars, tfaVars, csrfVars, wafVars, limVars, pipeVars, scanVars, loginVars, connVars>>

CipherRotationNext ==
  \/ KeptEncryptValue
  \/ KeptDecryptValue
  \/ KmAdvanceTime
  \/ KeptRotateKeysIfNeeded

SpecCipherRotation == CipherInit /\ [][CipherRotationNext]_vars

\* C37: decrypt takes the key it uses from this.keys.encryption and never reads the
\* record's keyId.  An encrypted value whose keyId is not the id of the encryption
\* key now in memory (the key was replaced after the value was encrypted) is refused
\* by decryptValue under every context, whether or not the replaced key is in a
\* backup file; a value whose keyId is the id of the key in memory is decrypted
\* under its own context; and writing another keyId into the record changes nothing
\* of what decryptValue returns.
C37_ReplacedKeyNeverConsulted ==
  sealed.handled =>
    LET e == sealed.out[1]
        current == keys["encryption"][1]
    IN  /\ e.of.keyId # current.id
             => \A context \in ContextInputs : ~decryptValue(e, context).ok
        /\ e.of.keyId = current.id => decryptValue(e, sealed.context).ok
        /\ \A context \in ContextInputs, keyData \in {current} \cup {b.data : b \in backupFiles} :
             decryptValue([e EXCEPT !.of.keyId = keyData.id], context)
               = decryptValue(e, context)

\* a value was encrypted, the encryption key was rotated, the replaced key is in its
\* backup file, and decryptValue with the value's own context has failed
C37_Witness ==
  /\ sealed.handled
  /\ opened.handled
  /\ opened.context = sealed.context
  /\ ~opened.ok
  /\ sealed.out[1].of.keyId # keys["encryption"][1].id
  /\ \E b \in backupFiles :
       /\ b.name = <<"encryption", sealed.out[1].of.keyId>>
       /\ b.data.id = sealed.out[1].of.keyId
  /\ rotationLog["encryption"] = "rotated"

-----------------------------------------------------------------------------
(* Token issuer/verifier: src/src/security/crypto.js lines 539-763 (jwt.js) *)
(* and authJWT of src/unnamed/part_001 (middlewares/auth.middleware.js).    *)
(* Time is in minutes.                                                      *)

KEY_ROTATION_INTERVAL == 1440

AccessLifetime == 60

RefreshLifetime == 10080

\* checkAndRefreshToken: 10 * 60 seconds
RefreshThreshold == 10

\* the most tokens clients hold at once
MaxTokens == 4

\* the instants at which the model looks at the token module
JwtInstants == {0, 55, 1440, 2160}

JWT_SECRET == "rahasia2025TRACAS"

\* sha256(`${deviceId}:${userId}:${secret}`), an injective hash
FingerprintOf(deviceId, userId, secret) == <<deviceId, userId, secret>>

generateDeviceFingerprint(deviceId, userId) ==
  FingerprintOf(deviceId, userId, JWT_SECRET)

Has(obj, field) == field \in DOMAIN obj

\* { ...a, ...b }
Spread(a, b) ==
  [f \in (DOMAIN a) \cup (DOMAIN b) |-> IF f \in DOMAIN b THEN b[f] ELSE a[f]]

\* const { type, exp, iat, ...rest } = obj
Without(obj, fields) == [f \in (DOMAIN obj) \ fields |-> obj[f]]

RsaKey(n) == [kind |-> "rsa", id |-> n]
HmacKey(n) == [kind |-> "hmac", id |-> n]

\* generateRSAKeys: "rsa" the pair is generated and saved; "hmac" generation or a
\* write failed and the HMAC fallback was saved; "throw" the fallback write failed too
KeygenOutcomes == {"rsa", "hmac", "throw"}

GeneratedPrivateKey(outcome, n) ==
  IF outcome = "rsa" THEN RsaKey(n) ELSE HmacKey(n)

GeneratedPublicKey(outcome, n) ==
  IF outcome = "rsa" THEN <<RsaKey(n)>> ELSE <<>>

\* the condition of rotateKeysIfNeeded
RotationDue ==
  ~isLocal /\ (jwtNow - lastKeyRotation) > KEY_ROTATION_INTERVAL

\* the module's key state after a rotateKeysIfNeeded call whose generateRSAKeys
\* ends as `outcome`
Rotates(outcome) == RotationDue /\ outcome # "throw"

PrivateKeyAfter(outcome) ==
  IF Rotates(outcome) THEN GeneratedPrivateKey(outcome, nextJwtKey) ELSE privateKey

PublicKeyAfter(outcome) ==
  IF Rotates(outcome) THEN GeneratedPublicKey(outcome, nextJwtKey) ELSE publicKey

LastRotationAfter(outcome) ==
  IF Rotates(outcome) THEN jwtNow ELSE lastKeyRotation

NextJwtKeyAfter(outcome) ==
  IF Rotates(outcome) THEN nextJwtKey + 1 ELSE nextJwtKey

PriorKeyAfter(outcome) ==
  IF Rotates(outcome) THEN <<privateKey>> ELSE priorKey

Algorithm == IF isRSA THEN "RS256" ELSE "HS256"

\* whether jwt.sign(payload, key, {algorithm}) accepts the key
CanSign(key) ==
  IF Algorithm = "RS256" THEN key.kind = "rsa"
  ELSE key.kind = "hmac" \/ hsTakesPem

\* jwt.sign: iat is the payload's own or the clock, exp = iat + expiresIn, and the
\* signature covers the payload under the signing key
JwtSign(tokenPayload, key, expiresIn) ==
  LET iat == IF Has(tokenPayload, "iat") THEN tokenPayload.iat ELSE jwtNow
      body == Spread(tokenPayload, [iat |-> iat, exp |-> iat + expiresIn])
  IN [payload |-> body, alg |-> Algorithm,
      sig |-> [key |-> key.id, over |-> body]]

\* the payload generateToken hands to jwt.sign
TokenPayload(payload, useFingerprint) ==
  LET withFp ==
        IF useFingerprint /\ Has(payload, "deviceId")
        THEN Spread(payload,
               [fingerprint |-> generateDeviceFingerprint(payload.deviceId,
                   IF Has(payload, "userId") THEN payload.userId ELSE 0)])
        ELSE payload
  IN IF ~isLocal
     THEN Spread(withFp, [iss |-> "tracas-api", aud |-> "tracas-app", iat |-> jwtNow])
     ELSE withFp

\* generateToken after its rotateKeysIfNeeded call left `key` as the private key
generateToken(payload, expiresIn, useFingerprint, key) ==
  JwtSign(TokenPayload(payload, useFingerprint), key, expiresIn)

\* generateTokenPair: the access and the refresh token
generateTokenPair(payload, key) ==
  {generateToken(payload, AccessLifetime, TRUE, key),
   generateToken(Spread(payload, [type |-> "refresh"]), RefreshLifetime, TRUE, key)}

JwtOk(decoded) == [ok |-> TRUE, error |-> "none", decoded |-> decoded]
JwtError(name, decoded) == [ok |-> FALSE, error |-> name, decoded |-> decoded]

\* jwt.verify(token, key, {algorithms, issuer, audience}) with the key (a sequence,
\* <<>> for null) the module holds: key, algorithm, signature, exp, aud, iss, in
\* jsonwebtoken's order
JwtVerify(token, key) ==
  CASE key = <<>> -> JwtError("JsonWebTokenError", token.payload)
    [] token.alg # Algorithm -> JwtError("JsonWebTokenError", token.payload)
    [] Algorithm = "RS256" /\ key[1].kind # "rsa" ->
         JwtError("JsonWebTokenError", token.payload)
    [] Algorithm = "HS256" /\ key[1].kind # "hmac" /\ ~hsTakesPem ->
         JwtError("JsonWebTokenError", token.payload)
    [] token.sig.key # key[1].id \/ token.sig.over # token.payload ->
         JwtError("JsonWebTokenError", token.payload)
    [] jwtNow >= token.payload.exp ->
         JwtError("TokenExpiredError", token.payload)
    [] ~isLocal /\ ~(Has(token.payload, "aud") /\ token.payload.aud = "tracas-app") ->
         JwtError("JsonWebTokenError", token.payload)
    [] ~isLocal /\ ~(Has(token.payload, "iss") /\ token.payload.iss = "tracas-api") ->
         JwtError("JsonWebTokenError", token.payload)
    [] OTHER -> JwtOk(token.payload)

\* a verifyToken that returns what jwt.verify decoded, comparing no fingerprint
VerifyWith_NoBinding(token, priv, pub) ==
  JwtVerify(token, IF isRSA THEN pub ELSE <<priv>>)

\* verifyToken against the given key state
VerifyWith(token, priv, pub) ==
  LET res == JwtVerify(token, IF isRSA THEN pub ELSE <<priv>>)
      decoded == res.decoded
  IN IF ~res.ok THEN res
     ELSE IF ~Has(decoded, "fingerprint") \/ ~Has(decoded, "deviceId") THEN res
     ELSE IF decoded.fingerprint #
               generateDeviceFingerprint(decoded.deviceId,
                 IF Has(decoded, "userId") THEN decoded.userId ELSE 0)
          THEN JwtError("Invalid token fingerprint", decoded)
          ELSE res

verifyToken(token) == VerifyWith(token, privateKey, publicKey)


\* the payloads handed to generateTokenPair: the login route's, and one of a caller
\* that names no device
LoginPayload ==
  [userId |-> 1, username |-> "admin", role |-> "parent",
   deviceId |-> "admin-device-001"]

PayloadInputs == {LoginPayload, [userId |-> 1, username |-> "admin", role |-> "parent"]}

\* a token this server signed before its JWT_SECRET was changed (the key files kept)
LegacyToken ==
  JwtSign(Spread(TokenPayload(LoginPayload, FALSE),
            [fingerprint |-> FingerprintOf(LoginPayload.deviceId, LoginPayload.userId,
                                           "fallback-secret")]),
          privateKey, AccessLifetime)

\* what a client can present: a token it holds, or one it altered without the key
ForgedSignature(token) == [token EXCEPT !.sig.key = 0]
ExtendedExpiry(token) == [token EXCEPT !.payload.exp = @ + RefreshLifetime]

Presentable ==
  issued \cup {ForgedSignature(t) : t \in issued}
         \cup {ExtendedExpiry(t) : t \in issued}

\* module load: existing key files are read, or generateRSAKeys runs (and may fall
\* back to an HMAC secret, publicKey = privateKey)
JwtInit ==
  /\ LimIdle /\ PipeIdle /\ ScanIdle /\ LoginIdle
  /\ isLocal \in BOOLEAN
  /\ ConnIdle
  /\ KeysIdle /\ TfaIdle /\ CsrfIdle /\ WafIdle
  /\ jwtNow = 0
  /\ lastKeyRotation = 0
  /\ nextJwtKey = 2
  /\ priorKey = <<>>
  /\ authResponse = NoResponse
  /\ refreshResult = NoRefreshResult
  /\ \E start \in {"loaded", "generated", "fallback"} :
       /\ isRSA = (start # "fallback")
       /\ hsTakesPem \in (IF start = "fallback" THEN BOOLEAN ELSE {FALSE})
       /\ privateKey = IF start = "fallback" THEN HmacKey(1) ELSE RsaKey(1)
       /\ publicKey = <<privateKey>>
       /\ issued = IF start = "loaded" THEN {LegacyToken} ELSE {}

JwtAdvanceTime ==
  /\ \E t \in JwtInstants : t > jwtNow /\ jwtNow' = t
  /\ authResponse' = NoResponse
  /\ refreshResult' = NoRefreshResult
  /\ UNCHANGED <<privateKey, publicKey, isRSA, hsTakesPem, lastKeyRotation,
                 nextJwtKey, priorKey, issued>>
  /\ UNCHANGED <<isLocal, keyVars, tfaVars, csrfVars, wafVars, limVars, pipeVars, scanVars, loginVars, connVars>>

\* the 12 h timer of index.js (non-local only): rotateKeysIfNeeded
JwtRotateTimer ==
  /\ ~isLocal
  /\ \E outcome \in KeygenOutcomes :
       /\ privateKey' = PrivateKeyAfter(outcome)
       /\ publicKey' = PublicKeyAfter(outcome)
       /\ lastKeyRotation' = LastRotationAfter(outcome)
       /\ nextJwtKey' = NextJwtKeyAfter(outcome)
       /\ priorKey' = PriorKeyAfter(outcome)
  /\ authResponse' = NoResponse
  /\ refreshResult' = NoRefreshResult
  /\ UNCHANGED <<isRSA, hsTakesPem, jwtNow, issued>>
  /\ UNCHANGED <<isLocal, keyVars, tfaVars, csrfVars, wafVars, limVars, pipeVars, scanVars, loginVars, connVars>>

\* the tokens a generateTokenPair call returns (none when jwt.sign throws)
PairIssued(payload, outcome) ==
  IF CanSign(PrivateKeyAfter(outcome))
  THEN generateTokenPair(payload, PrivateKeyAfter(outcome))
  ELSE {}

\* login: generateTokenPair(payload); its first generateToken call runs
\* rotateKeysIfNeeded before signing
JwtGenerateTokenPair ==
  /\ \E payload \in PayloadInputs, outcome \in KeygenOutcomes :
       /\ Cardinality(issued \cup PairIssued(payload, outcome)) <= MaxTokens
       /\ issued' = issued \cup PairIssued(payload, outcome)
       /\ privateKey' = PrivateKeyAfter(outcome)
       /\ publicKey' = PublicKeyAfter(outcome)
       /\ lastKeyRotation' = LastRotationAfter(outcome)
       /\ nextJwtKey' = NextJwtKeyAfter(outcome)
       /\ priorKey' = PriorKeyAfter(outcome)
  /\ authResponse' = NoResponse
  /\ refreshResult' = NoRefreshResult
  /\ UNCHANGED <<isRSA, hsTakesPem, jwtNow>>
  /\ UNCHANGED <<isLocal, keyVars, tfaVars, csrfVars, wafVars, limVars, pipeVars, scanVars, loginVars, connVars>>

\* a refreshTokens that does not look at decoded.type
RefreshPayload_AnyType(refreshToken) ==
  LET v == verifyToken(refreshToken) IN
  IF ~v.ok THEN <<>>
  ELSE <<Without(v.decoded, {"type", "exp", "iat"})>>

\* refreshTokens up to its generateTokenPair call: the payload to reissue, <<>> when
\* verifyToken or the type check throws
RefreshPayload(refreshToken) ==
  LET v == verifyToken(refreshToken) IN
  IF ~v.ok THEN <<>>
  ELSE IF ~Has(v.decoded, "type") \/ v.decoded.type # "refresh" THEN <<>>
  ELSE <<Without(v.decoded, {"type", "exp", "iat"})>>

\* a checkAndRefreshToken that refreshes whatever lifetime is left
AutoRefreshRuns_AnyLifetime(decoded, refresh) ==
  /\ refresh # <<>>
  /\ RefreshPayload(refresh[1]) # <<>>

\* checkAndRefreshToken reaches refreshTokens' generateTokenPair
AutoRefreshRuns(decoded, refresh) ==
  /\ (decoded.exp - jwtNow) < RefreshThreshold
  /\ refresh # <<>>
  /\ RefreshPayload(refresh[1]) # <<>>

Reject(token, status, code) ==
  [handled |-> TRUE, token |-> token, status |-> status, code |-> code,
   next |-> FALSE, user |-> <<>>, newTokens |-> {}, roles |-> {}, refresh |-> <<>>]

Pass(token, user, newTokens) ==
  [handled |-> TRUE, token |-> token, status |-> 200, code |-> "",
   next |-> TRUE, user |-> user, newTokens |-> newTokens, roles |-> {},
   refresh |-> <<>>]

\* the response together with what the request asked for: options.roles and the
\* refresh token it carried
Asked(response, roles, refresh) ==
  [response EXCEPT !.roles = roles, !.refresh = refresh]

\* options.roles of the guards in use: none, or a list of roles
RolesOptions == {{}, {"admin"}, {"parent", "admin"}}

\* the catch block of authJWT
AuthErrorResponse(token, error) ==
  CASE error = "TokenExpiredError" -> Reject(token, 401, "TOKEN_EXPIRED")
    [] error = "Invalid token fingerprint" -> Reject(token, 403, "INVALID_DEVICE")
    [] OTHER -> Reject(token, 401, "INVALID_TOKEN")

\* authJWT(options)(req, res, next) for a request carrying `token` (<<>>: none) and
\* `refresh` (<<>>: none) in the refreshToken cookie or x-refresh-token header
JwtAuthJWT ==
  /\ \E token \in {<<>>} \cup {<<t>> : t \in Presentable} :
       LET res == verifyToken(token[1])
           keysKept == UNCHANGED <<privateKey, publicKey, lastKeyRotation,
                                   nextJwtKey, priorKey>>
       IN
       CASE token = <<>> ->
              /\ \E required \in BOOLEAN, roles \in RolesOptions :
                   authResponse' = IF required
                                   THEN Asked(Reject(token, 401, ""), roles, <<>>)
                                   ELSE Asked(Pass(token, <<>>, {}), roles, <<>>)
              /\ keysKept /\ UNCHANGED issued
         [] token # <<>> /\ ~res.ok ->
              /\ authResponse' = AuthErrorResponse(token, res.error)
              /\ keysKept /\ UNCHANGED issued
         [] OTHER ->
              \E roles \in RolesOptions :
                IF roles # {}
                   /\ (~Has(res.decoded, "role") \/ res.decoded.role \notin roles)
                THEN /\ authResponse' = Asked(Reject(token, 403, ""), roles, <<>>)
                     /\ keysKept /\ UNCHANGED issued
                ELSE \E refresh \in {<<>>} \cup {<<t>> : t \in issued} :
                       IF AutoRefreshRuns(res.decoded, refresh)
                       THEN \E outcome \in KeygenOutcomes :
                              LET new == PairIssued(RefreshPayload(refresh[1])[1],
                                                    outcome)
                              IN /\ Cardinality(issued \cup new) <= MaxTokens
                                 /\ authResponse' =
                                      Asked(Pass(token, <<res.decoded>>, new),
                                            roles, refresh)
                                 /\ issued' = issued \cup new
                                 /\ privateKey' = PrivateKeyAfter(outcome)
                                 /\ publicKey' = PublicKeyAfter(outcome)
                                 /\ lastKeyRotation' = LastRotationAfter(outcome)
                                 /\ nextJwtKey' = NextJwtKeyAfter(outcome)
                                 /\ priorKey' = PriorKeyAfter(outcome)
                       ELSE /\ authResponse' =
                                 Asked(Pass(token, <<res.decoded>>, {}),
                                       roles, refresh)
                            /\ keysKept /\ UNCHANGED issued
  /\ refreshResult' = NoRefreshResult
  /\ UNCHANGED <<isRSA, hsTakesPem, jwtNow>>
  /\ UNCHANGED <<isLocal, keyVars, tfaVars, csrfVars, wafVars, limVars, pipeVars, scanVars, loginVars, connVars>>

\* the object generateTokenPair returns
TokenPair(payload, key) ==
  [accessToken |-> generateToken(payload, AccessLifetime, TRUE, key),
   refreshToken |-> generateToken(Spread(payload, [type |-> "refresh"]),
                                  RefreshLifetime, TRUE, key)]

RefreshThrows(refreshToken, error) ==
  [handled |-> TRUE, token |-> <<refreshToken>>, ok |-> FALSE, error |-> error,
   pair |-> <<>>]

RefreshReturns(refreshToken, pair) ==
  [handled |-> TRUE, token |-> <<refreshToken>>, ok |-> TRUE, error |-> "none",
   pair |-> <<pair>>]

\* refreshTokens(refreshToken); `key` is the private key its generateTokenPair call
\* signs with (the key rotateKeysIfNeeded left)
refreshTokens(refreshToken, key) ==
  LET v == verifyToken(refreshToken)
      restPayload == RefreshPayload(refreshToken)
  IN IF ~v.ok THEN RefreshThrows(refreshToken, v.error)
     ELSE IF restPayload = <<>> THEN RefreshThrows(refreshToken, "Invalid token type")
     ELSE IF ~CanSign(key) THEN RefreshThrows(refreshToken, "jwt.sign")
     ELSE RefreshReturns(refreshToken, TokenPair(restPayload[1], key))

PairTokens(result) ==
  IF result.ok THEN {result.pair[1].accessToken, result.pair[1].refreshToken}
  ELSE {}

\* POST /api/auth/refresh-token with `refreshToken` in the body
JwtRefreshTokens ==
  /\ \E refreshToken \in Presentable :
       IF RefreshPayload(refreshToken) = <<>>
       THEN /\ refreshResult' = refreshTokens(refreshToken, privateKey)
            /\ UNCHANGED <<privateKey, publicKey, lastKeyRotation, nextJwtKey,
                           priorKey, issued>>
       ELSE \E outcome \in KeygenOutcomes :
              LET result == refreshTokens(refreshToken, PrivateKeyAfter(outcome))
              IN /\ Cardinality(issued \cup PairTokens(result)) <= MaxTokens
                 /\ refreshResult' = result
                 /\ issued' = issued \cup PairTokens(result)
                 /\ privateKey' = PrivateKeyAfter(outcome)
                 /\ publicKey' = PublicKeyAfter(outcome)
                 /\ lastKeyRotation' = LastRotationAfter(outcome)
                 /\ nextJwtKey' = NextJwtKeyAfter(outcome)
                 /\ priorKey' = PriorKeyAfter(outcome)
  /\ authResponse' = NoResponse
  /\ UNCHANGED <<isRSA, hsTakesPem, jwtNow>>
  /\ UNCHANGED <<isLocal, keyVars, tfaVars, csrfVars, wafVars, limVars, pipeVars, scanVars, loginVars, connVars>>

JwtNext ==
  \/ JwtAdvanceTime
  \/ JwtRotateTimer
  \/ JwtGenerateTokenPair
  \/ JwtAuthJWT
  \/ JwtRefreshTokens

SpecJwt == JwtInit /\ [][JwtNext]_vars

-----------------------------------------------------------------------------
(* Claims about the key manager, checked under SpecKeys                    *)

\* C2: in every reachable state the active in-memory key of each role is the
\* key persisted in that role's key file (new material is promoted only
\* after its durable write).
C2_ActiveKeyIsPersisted ==
  \A r \in Roles : keyFiles[r] = JsonFile(keys[r][1])

\* C3: when a rotateKeysIfNeeded call logs a rotation error for a role, that
\* role's pre-rotation key is still the active key after the call and the
\* role still needs rotation, so the next tick attempts it again.
C3_FailedRotationKeepsKeyAndRetries ==
  [][\A r \in Roles :
       (kmNow' = kmNow /\ rotationLog'[r] = "error")
         => (keys'[r] = keys[r] /\ isKeyRotationNeeded(r)')]_vars

\* C4: every role has exactly one active key record, and no record that was
\* archived to a backup file is the active record of any role.
C4_OneActiveKeyPerRole ==
  \A r \in Roles :
    /\ Len(keys[r]) = 1
    /\ \A b \in backupFiles :
         /\ b.data.id # keys[r][1].id
         /\ b.data.value # keys[r][1].value

\* C4 witness: a tick in which one role rotated and another role's rotation
\* failed, both outgoing records archived.
C4_Witness ==
  /\ \E r \in Roles : rotationLog[r] = "rotated"
  /\ \E r \in Roles : rotationLog[r] = "error"
  /\ Cardinality(backupFiles) >= 2

\* C26: a rotateKeysIfNeeded tick (a step that leaves the clock alone) takes up
\* the rotation of a role exactly when its active key is more than 90 days old,
\* and an active key is replaced only by such a tick, never in local mode.  A
\* rotation that succeeded left the outgoing record in its backup file with
\* rotatedAt set to the time of the tick, and a new active key with another id,
\* the same bit length, createdAt the time of the tick and rotatedAt null; the
\* role then needs no rotation, so a tick that follows at once rotates nothing.
C26_RotationByAge ==
  [][\A r \in Roles :
       LET old == keys[r][1]
           new == keys'[r][1]
           aged == (kmNow - old.createdAt) > 90
           tick == kmNow' = kmNow
       IN  /\ keys'[r] # keys[r] => (tick /\ aged /\ ~isLocal)
           /\ tick => (rotationLog'[r] \in {"rotated", "error"} <=> aged)
           /\ (tick /\ rotationLog'[r] = "rotated")
                => /\ new.id # old.id
                   /\ new.value # old.value
                   /\ new.length = old.length
                   /\ new.createdAt = kmNow
                   /\ new.rotatedAt = <<>>
                   /\ \E b \in backupFiles' :
                        /\ b.name = <<r, old.id>>
                        /\ b.data.id = old.id
                        /\ b.data.value = old.value
                        /\ b.data.rotatedAt = <<kmNow>>
                   /\ ~((kmNow' - new.createdAt) > 90)]_vars

\* the encryption key was rotated at day 91 and its 256 bits kept, the outgoing
\* record archived with its rotation time
C26_Witness ==
  /\ rotationLog["encryption"] = "rotated"
  /\ kmNow = 91
  /\ keys["encryption"][1].createdAt = 91
  /\ keys["encryption"][1].length = 256
  /\ \E b \in backupFiles : b.name[1] = "encryption" /\ b.data.rotatedAt = <<91>>

-----------------------------------------------------------------------------
\* Claims about the JWT module and authJWT (SpecJwt)

\* C1: right after a JWT key rotation, an unexpired token that was signed under the
\* key in force before the rotation is still accepted by verifyToken (the overlap
\* window), fingerprint mismatches aside.
C1_PriorKeyTokensAccepted ==
  \A t \in issued :
    (/\ priorKey # <<>>
     /\ lastKeyRotation = jwtNow
     /\ t.sig.key = priorKey[1].id
     /\ jwtNow < t.payload.exp)
    => verifyToken(t).error \in {"none", "Invalid token fingerprint"}

\* C27 as stated: at every moment the algorithm generateToken and verifyToken use
\* is the one of the active signing material: RS256, with the key pair, while the
\* private key is an RSA key, and HS256 while it is an HMAC secret.
C27_AlgorithmFollowsKey ==
  IF privateKey.kind = "rsa"
  THEN /\ isRSA
       /\ publicKey # <<>>
       /\ publicKey[1].kind = "rsa"
       /\ publicKey[1].id = privateKey.id
  ELSE ~isRSA

\* C9: every token generateToken returned verifies, while it is unexpired and its
\* fingerprint (when device-bound) matches, to the claims it was signed over: the
\* caller's fields plus iat, exp and, outside local mode, iss and aud.
C9_RoundTrip ==
  \A t \in issued :
    (/\ jwtNow < t.payload.exp
     /\ (Has(t.payload, "fingerprint") /\ Has(t.payload, "deviceId"))
          => t.payload.fingerprint =
               generateDeviceFingerprint(t.payload.deviceId, t.payload.userId))
    => /\ verifyToken(t).ok
       /\ verifyToken(t).decoded = t.payload

\* C10: authJWT answers a token that fails verification by its kind: an expired
\* token the server signed (under the current key, or under the prior key right
\* after a rotation) 401 TOKEN_EXPIRED, an unexpired one whose fingerprint does not
\* match 403 INVALID_DEVICE, an altered one 401 INVALID_TOKEN.
C10_ThreeErrorKinds ==
  (authResponse.handled /\ authResponse.token # <<>>) =>
    LET t == authResponse.token[1]
        trusted == \/ (publicKey # <<>> /\ t.sig.key = privateKey.id)
                   \/ /\ priorKey # <<>>
                      /\ lastKeyRotation = jwtNow
                      /\ t.sig.key = priorKey[1].id
        expired == jwtNow >= t.payload.exp
        mismatch == /\ Has(t.payload, "fingerprint")
                    /\ Has(t.payload, "deviceId")
                    /\ t.payload.fingerprint #
                         generateDeviceFingerprint(t.payload.deviceId,
                                                   t.payload.userId)
    IN /\ t \notin issued
            => (authResponse.status = 401 /\ authResponse.code = "INVALID_TOKEN")
       /\ (t \in issued /\ trusted /\ expired)
            => (authResponse.status = 401 /\ authResponse.code = "TOKEN_EXPIRED")
       /\ (t \in issued /\ trusted /\ ~expired /\ mismatch)
            => (authResponse.status = 403 /\ authResponse.code = "INVALID_DEVICE")

\* C11: refreshTokens returns a pair only for a token that passes verifyToken and
\* whose type is 'refresh'; the pair's tokens carry the presented token's claims
\* without type, exp and iat, the access token has no type, the refresh token has
\* type 'refresh', and both are stamped anew (the access token expiring first).
C11_RefreshReissuesClaims ==
  [][(refreshResult'.handled /\ refreshResult'.ok) =>
       LET t == refreshResult'.token[1]
           accessToken == refreshResult'.pair[1].accessToken
           refreshToken == refreshResult'.pair[1].refreshToken
           strip(claims) == [f \in (DOMAIN claims) \ {"type", "exp", "iat"} |->
                               claims[f]]
       IN /\ verifyToken(t).ok
          /\ "type" \in DOMAIN t.payload
          /\ t.payload.type = "refresh"
          /\ strip(accessToken.payload) = strip(t.payload)
          /\ strip(refreshToken.payload) = strip(t.payload)
          /\ "type" \notin DOMAIN accessToken.payload
          /\ "type" \in DOMAIN refreshToken.payload
          /\ refreshToken.payload.type = "refresh"
          /\ accessToken.payload.iat = jwtNow
          /\ refreshToken.payload.iat = jwtNow
          /\ accessToken.payload.exp < refreshToken.payload.exp]_vars

\* a refresh token issued at one instant was exchanged at a later one, and the
\* exchange also rotated the signing key
C11_Witness ==
  /\ refreshResult.handled
  /\ refreshResult.ok
  /\ refreshResult.token[1].payload.iat < jwtNow
  /\ refreshResult.pair[1].accessToken.sig.key # refreshResult.token[1].sig.key
  /\ refreshResult.pair[1].refreshToken \in issued

\* C12: every presentation of an unexpired refresh token the server issued passes
\* refreshTokens' checks and reaches the reissue, however often the token was
\* presented before (a failure of jwt.sign in the reissue aside).
C12_RefreshTokenReusable ==
  [][\A t \in issued :
       (/\ refreshResult'.handled
        /\ refreshResult'.token = <<t>>
        /\ "type" \in DOMAIN t.payload
        /\ t.payload.type = "refresh"
        /\ jwtNow < t.payload.exp)
       => refreshResult'.error \in {"none", "jwt.sign"}]_vars

\* C22: authJWT passes every request whose token verifies and whose role is
\* allowed on to the next handler, without sending a response, whatever the
\* automatic refresh did; and the response carries replacement tokens only when
\* the token had less than 10 minutes left and the request carried a refresh
\* token that refreshTokens accepts (it verifies and its type is refresh).
C22_AutoRefreshNeverBlocks ==
  [][(authResponse'.handled /\ authResponse'.token # <<>>) =>
       LET t == authResponse'.token[1]
           checked == verifyToken(t)
           roles == authResponse'.roles
           allowed == \/ roles = {}
                      \/ ("role" \in DOMAIN t.payload /\ t.payload.role \in roles)
           r == authResponse'.refresh
       IN  /\ (checked.ok /\ allowed)
             => (/\ authResponse'.next
                 /\ authResponse'.status = 200
                 /\ authResponse'.user = <<t.payload>>)
           /\ authResponse'.newTokens # {}
             => (/\ checked.ok /\ allowed
                 /\ t.payload.exp - jwtNow < 10
                 /\ r # <<>>
                 /\ verifyToken(r[1]).ok
                 /\ "type" \in DOMAIN r[1].payload
                 /\ r[1].payload.type = "refresh")]_vars

\* a request guarded by a list of roles was passed on with replacement tokens
C22_Witness ==
  /\ authResponse.handled
  /\ authResponse.next
  /\ authResponse.roles # {}
  /\ authResponse.newTokens # {}

\* a request with less than 10 minutes left on its token carried a refresh token
\* that refreshTokens refused, and was passed on without replacement tokens
C22_RefreshThrowsWitness ==
  /\ authResponse.handled
  /\ authResponse.next
  /\ authResponse.token # <<>>
  /\ authResponse.token[1].payload.exp - jwtNow < 10
  /\ authResponse.refresh # <<>>
  /\ authResponse.newTokens = {}

C33_BindingRefusedWitness ==
  /\ authResponse.handled
  /\ authResponse.status = 403
  /\ authResponse.code = "INVALID_DEVICE"
  /\ authResponse.token[1].sig.over = authResponse.token[1].payload
  /\ authResponse.token[1].payload.fingerprint #
       generateDeviceFingerprint(authResponse.token[1].payload.deviceId,
                                 authResponse.token[1].payload.userId)

\* C34: when authJWT is configured with a non-empty list of roles, it calls next()
\* only for a request whose token carries a role of the list, and req.user is then
\* what the token decodes to.
C34_NextOnlyForListedRole ==
  (authResponse.handled /\ authResponse.roles # {} /\ authResponse.next)
  => /\ authResponse.token # <<>>
     /\ Has(authResponse.token[1].payload, "role")
     /\ authResponse.token[1].payload.role \in authResponse.roles
     /\ authResponse.user = <<authResponse.token[1].payload>>

\* the part of C34 about requests that do carry a token: with a non-empty list of
\* roles, a token verifyToken accepts is passed on with req.user set exactly when
\* its role is in the list, and is otherwise answered 403 with req.user not set and
\* no replacement tokens
C34_TokenRoleChecked ==
  (/\ authResponse.handled
   /\ authResponse.roles # {}
   /\ authResponse.token # <<>>
   /\ authResponse.status \notin {401}
   /\ authResponse.code # "INVALID_DEVICE")
  => IF /\ Has(authResponse.token[1].payload, "role")
        /\ authResponse.token[1].payload.role \in authResponse.roles
     THEN /\ authResponse.next
          /\ authResponse.user = <<authResponse.token[1].payload>>
     ELSE /\ ~authResponse.next
          /\ authResponse.status = 403
          /\ authResponse.user = <<>>
          /\ authResponse.newTokens = {}

\* a token of a parent was refused by a guard that lists only admin
C34_RoleRefusedWitness ==
  /\ authResponse.handled
  /\ authResponse.roles = {"admin"}
  /\ authResponse.token # <<>>
  /\ authResponse.status = 403
  /\ authResponse.code = ""
  /\ ~authResponse.next

\* C32: authJWT never passes on a request whose bearer token is of type 'refresh':
\* it neither calls next() nor sets req.user for it.
C32_RefreshTokenNotBearer ==
  (/\ authResponse.handled
   /\ authResponse.token # <<>>
   /\ Has(authResponse.token[1].payload, "type")
   /\ authResponse.token[1].payload.type = "refresh")
  => (~authResponse.next /\ authResponse.user = <<>>)

\* the other direction, which the code does keep: refreshTokens returns a pair only
\* for a token of type 'refresh'
C32_RefreshTakesRefreshTokens ==
  (refreshResult.handled /\ refreshResult.ok)
  => (/\ Has(refreshResult.token[1].payload, "type")
      /\ refreshResult.token[1].payload.type = "refresh")

-----------------------------------------------------------------------------
(* Two-factor manager: src/src/security/two-factor.js, class TwoFactorAuth  *)

TfaUsers == {"u1", "u2"}

\* the `count` arguments tried (the default is 10)
CodeCounts == {1, 2}

\* no more than this many backup codes are ever generated
MaxCodes == 4

\* Map.prototype.set / delete
MapSet(map, key, value) ==
  [k \in (DOMAIN map) \cup {key} |-> IF k = key THEN value ELSE map[k]]

\* a delete that leaves the map as it is
MapDelete_KeepsEntry(map, key) == map

MapDelete(map, key) == [k \in (DOMAIN map) \ {key} |-> map[k]]

\* crypto.createHash('sha256').update(code + userId).digest('hex')
HashCode(code, userId) == <<code, userId>>

\* the codes of one generateBackupCodes call: `count` fresh random codes
RandomCodes(count) == [i \in 1..count |-> nextCode + i - 1]

\* storedHashes.indexOf(inputHash), 0 for -1
IndexOf(storedHashes, inputHash) ==
  IF \E i \in DOMAIN storedHashes : storedHashes[i] = inputHash
  THEN CHOOSE i \in DOMAIN storedHashes :
         /\ storedHashes[i] = inputHash
         /\ \A j \in 1..(i - 1) : storedHashes[j] # inputHash
  ELSE 0

Splice_KeepsHash(storedHashes, index) == storedHashes

\* storedHashes.splice(index, 1)
Splice(storedHashes, index) ==
  SubSeq(storedHashes, 1, index - 1)
    \o SubSeq(storedHashes, index + 1, Len(storedHashes))

TfaInit ==
  /\ LimIdle /\ PipeIdle /\ ScanIdle /\ LoginIdle
  /\ isLocal \in BOOLEAN
  /\ ConnIdle
  /\ TfaIdle
  /\ KeysIdle /\ JwtIdle /\ CsrfIdle /\ WafIdle

generateBackupCodes ==
  /\ \E userId \in TfaUsers, count \in CodeCounts :
       LET codes == RandomCodes(count)
           hashes == [i \in 1..count |-> HashCode(codes[i], userId)]
       IN /\ nextCode + count - 1 <= MaxCodes
          /\ backupCodes' = MapSet(backupCodes, userId, hashes)
          /\ nextCode' = nextCode + count
          /\ usedCodes' = {u \in usedCodes : u[1] # userId}
          /\ tfaResult' = [op |-> "generate", userId |-> userId, code |-> 0,
                           result |-> TRUE]
  /\ UNCHANGED <<secretSetup, nextSecret>>
  /\ UNCHANGED <<isLocal, keyVars, jwtVars, csrfVars, wafVars, limVars, pipeVars, scanVars, loginVars, connVars>>

\* the code typed in is one that was handed out, or (0) one that never was
verifyBackupCode ==
  /\ \E userId \in TfaUsers, code \in 0..(nextCode - 1) :
       LET inputHash == HashCode(code, userId)
           storedHashes == IF userId \in DOMAIN backupCodes
                           THEN backupCodes[userId] ELSE <<>>
           index == IndexOf(storedHashes, inputHash)
       IN IF storedHashes = <<>> \/ index = 0
          THEN /\ tfaResult' = [op |-> "verify", userId |-> userId, code |-> code,
                                result |-> FALSE]
               /\ UNCHANGED <<backupCodes, usedCodes>>
          ELSE /\ backupCodes' = MapSet(backupCodes, userId,
                                        Splice(storedHashes, index))
               /\ usedCodes' = usedCodes \cup {<<userId, code>>}
               /\ tfaResult' = [op |-> "verify", userId |-> userId, code |-> code,
                                result |-> TRUE]
  /\ UNCHANGED <<nextCode, secretSetup, nextSecret>>
  /\ UNCHANGED <<isLocal, keyVars, jwtVars, csrfVars, wafVars, limVars, pipeVars, scanVars, loginVars, connVars>>

disableTwoFactor ==
  /\ \E userId \in TfaUsers :
       /\ backupCodes' = MapDelete(backupCodes, userId)
       /\ tfaResult' = [op |-> "disable", userId |-> userId, code |-> 0,
                        result |-> TRUE]
  /\ UNCHANGED <<nextCode, usedCodes, secretSetup, nextSecret>>
  /\ UNCHANGED <<isLocal, keyVars, jwtVars, csrfVars, wafVars, limVars, pipeVars, scanVars, loginVars, connVars>>

TfaNext == generateBackupCodes \/ verifyBackupCode \/ disableTwoFactor

SpecTwoFactor == TfaInit /\ [][TfaNext]_vars

-----------------------------------------------------------------------------
(* TOTP setup: TwoFactorAuth.generateSecret, encryptSecret, decryptSecret   *)
(* and verifyToken.  A secret of speakeasy is a fresh value, the QR code    *)
(* is the picture of the otpauth URL, and AES-256-CBC is symbolic: the text *)
(* opens under the key (secretEncryptionKey + userId) that closed it.       *)

\* generateBackupCodes(userId, count = 10)
DefaultCount == 10

\* the most generateSecret calls of one run
MaxSetups == 2

\* the user objects handed to generateSecret
SetupUsers ==
  {[id |-> "u1", username |-> "admin", email |-> <<"admin@tracas.id">>],
   [id |-> "u2", username |-> "root", email |-> <<>>]}

\* speakeasy.generateSecret({length, name, issuer})
SpeakeasySecret(n, user) ==
  [base32 |-> [secret |-> n],
   otpauth_url |-> [scheme |-> "otpauth",
                    name |-> <<"TRACAS Admin",
                               IF user.email # <<>> THEN user.email[1]
                               ELSE user.username>>,
                    issuer |-> "TRACAS Admin",
                    secret |-> [secret |-> n]]]

\* qrcode.toDataURL(otpAuthUrl)
QrCodeDataUrl(otpAuthUrl) == [picture |-> otpAuthUrl]

\* sha256(this.secretEncryptionKey + userId)
SecretKeyFor(userId) == <<"secretEncryptionKey", userId>>

\* encryptSecret(secret, userId) with the random iv drawn: iv ':' ciphertext
encryptSecret(secret, userId, iv) ==
  [iv |-> iv, encrypted |-> [key |-> SecretKeyFor(userId), iv |-> iv, text |-> secret]]

\* decryptSecret(encryptedSecret, userId): <<secret>>, or <<>> when it throws
decryptSecret(encryptedSecret, userId) ==
  IF /\ encryptedSecret.encrypted.key = SecretKeyFor(userId)
     /\ encryptedSecret.encrypted.iv = encryptedSecret.iv
  THEN <<encryptedSecret.encrypted.text>>
  ELSE <<>>

\* the object generateSecret returns
SetupData(secret, userId, iv, codes) ==
  [secret |-> secret.base32,
   qrCode |-> QrCodeDataUrl(secret.otpauth_url),
   encryptedSecret |-> encryptSecret(secret.base32, userId, iv),
   backupCodes |-> codes]

\* generateSecret(user); qrcode.toDataURL may reject, and then nothing was stored
TfaGenerateSecret ==
  /\ nextSecret <= MaxSetups
  /\ \E user \in SetupUsers, rendered \in BOOLEAN :
       LET secret == SpeakeasySecret(nextSecret, user)
           codes == RandomCodes(DefaultCount)
           hashes == [i \in 1..DefaultCount |-> HashCode(codes[i], user.id)]
       IN  IF rendered
           THEN /\ backupCodes' = MapSet(backupCodes, user.id, hashes)
                /\ nextCode' = nextCode + DefaultCount
                /\ usedCodes' = {u \in usedCodes : u[1] # user.id}
                /\ secretSetup' =
                     [handled |-> TRUE, userId |-> user.id, ok |-> TRUE,
                      generated |-> <<secret.base32>>,
                      returned |-> <<SetupData(secret, user.id, nextSecret, codes)>>]
           ELSE /\ UNCHANGED <<backupCodes, nextCode, usedCodes>>
                /\ secretSetup' =
                     [handled |-> TRUE, userId |-> user.id, ok |-> FALSE,
                      generated |-> <<secret.base32>>, returned |-> <<>>]
  /\ nextSecret' = nextSecret + 1
  /\ tfaResult' = NoTfaResult
  /\ UNCHANGED <<isLocal, keyVars, jwtVars, csrfVars, wafVars, limVars, pipeVars,
                 scanVars, loginVars, connVars>>

\* verifyToken(token, encryptedSecret, userId) with the encrypted secret of the
\* last setup; the token is the current code of some secret (0: of none)
TfaVerifyToken ==
  /\ secretSetup.handled /\ secretSetup.ok
  /\ \E userId \in TfaUsers, token \in 0..MaxSetups :
       LET secret == decryptSecret(secretSetup.returned[1].encryptedSecret, userId)
           verified == secret # <<>> /\ secret[1] = [secret |-> token]
       IN  tfaResult' = [op |-> "totp", userId |-> userId, code |-> token,
                         result |-> verified]
  /\ UNCHANGED <<backupCodes, nextCode, usedCodes, secretSetup, nextSecret>>
  /\ UNCHANGED <<isLocal, keyVars, jwtVars, csrfVars, wafVars, limVars, pipeVars,
                 scanVars, loginVars, connVars>>

SetupNext == TfaGenerateSecret \/ TfaVerifyToken

SpecTfaSetup == TfaInit /\ [][SetupNext]_vars

\* C25 as stated: the value generateSecret returns holds the encrypted secret and
\* in no field the secret itself.
C25_OnlyEncryptedSecretReturned ==
  (secretSetup.handled /\ secretSetup.ok) =>
    LET returned == secretSetup.returned[1]
        plaintext == secretSetup.generated[1]
    IN  /\ "encryptedSecret" \in DOMAIN returned
        /\ returned.encryptedSecret # plaintext
        /\ "secret" \in DOMAIN returned => returned.secret # plaintext

\* the manager keeps nothing of the secret: after generateSecret its map holds
\* hashes of backup codes only
C25_NoSecretInManagerState ==
  \A userId \in DOMAIN backupCodes :
    \A i \in 1..Len(backupCodes[userId]) :
      \E code \in 1..(MaxSetups * DefaultCount) :
        backupCodes[userId][i] = HashCode(code, userId)

\* C5: a backup code that verified once for an account is refused at every later
\* verifyBackupCode call for that account, as long as no new set was generated for
\* the account (usedCodes holds the codes verified since the account's last set).
C5_BackupCodeVerifiesOnce ==
  [][\A userId \in TfaUsers, code \in 1..MaxCodes :
       (/\ <<userId, code>> \in usedCodes
        /\ tfaResult'.op = "verify"
        /\ tfaResult'.userId = userId
        /\ tfaResult'.code = code)
       => ~tfaResult'.result]_vars

\* a code that verified is presented again, before any new set, and refused
C5_Witness ==
  /\ tfaResult.op = "verify"
  /\ ~tfaResult.result
  /\ <<tfaResult.userId, tfaResult.code>> \in usedCodes

\* C31: disableTwoFactor leaves the account without stored hashes and the other
\* accounts' hashes as they were; for an account without stored hashes every
\* verifyBackupCode call returns false, whatever code that was handed out before is
\* presented, and stores nothing; and such an account gets stored hashes again only
\* by a generateBackupCodes call for it.
C31_DisableDiscardsCodes ==
  /\ [][tfaResult'.op = "disable"
          => /\ tfaResult'.userId \notin DOMAIN backupCodes'
             /\ \A other \in TfaUsers \ {tfaResult'.userId} :
                  /\ other \in DOMAIN backupCodes' <=> other \in DOMAIN backupCodes
                  /\ other \in DOMAIN backupCodes
                       => backupCodes'[other] = backupCodes[other]]_vars
  /\ [][\A userId \in TfaUsers :
          (/\ userId \notin DOMAIN backupCodes
           /\ tfaResult'.op = "verify"
           /\ tfaResult'.userId = userId)
          => /\ ~tfaResult'.result
             /\ backupCodes' = backupCodes]_vars
  /\ [][\A userId \in TfaUsers :
          (userId \notin DOMAIN backupCodes /\ userId \in DOMAIN backupCodes')
          => /\ tfaResult'.op = "generate"
             /\ tfaResult'.userId = userId]_vars

\* two codes were handed out in all; one of them verified for the account, then the
\* account was disabled, and now the other one is presented for it and refused
C31_Witness ==
  /\ tfaResult.op = "verify"
  /\ ~tfaResult.result
  /\ tfaResult.userId \notin DOMAIN backupCodes
  /\ nextCode = 3
  /\ tfaResult.code \in 1..2
  /\ usedCodes = {<<tfaResult.userId, 3 - tfaResult.code>>}
  /\ backupCodes = <<>>

-----------------------------------------------------------------------------
(* CSRF guard: src/src/security/csrf.js                                     *)

Methods == {"GET", "HEAD", "OPTIONS", "POST", "PUT", "PATCH", "DELETE"}

\* req.cookies?.csrfToken and req.headers['x-csrf-token']: <<>> is undefined,
\* <<s>> the string s
CsrfTokenInputs == {<<>>, <<"">>, <<"a1b2">>, <<"A1B2">>, <<"c3d4">>}

\* JavaScript truthiness of such a value: !value is true for undefined and for ''
Truthy(value) == value # <<>> /\ value[1] # ""

CsrfNextCalled(method, cookieToken, headerToken) ==
  [handled |-> TRUE, method |-> method, cookie |-> cookieToken,
   header |-> headerToken, status |-> 0, message |-> "", next |-> TRUE]

CsrfRejected(method, cookieToken, headerToken, message) ==
  [handled |-> TRUE, method |-> method, cookie |-> cookieToken,
   header |-> headerToken, status |-> 403, message |-> message, next |-> FALSE]

verifyCsrfToken_NoCompare(method, cookieToken, headerToken) ==
  IF method \in {"GET", "HEAD", "OPTIONS"}
  THEN CsrfNextCalled(method, cookieToken, headerToken)
  ELSE IF ~Truthy(cookieToken) \/ ~Truthy(headerToken)
  THEN CsrfRejected(method, cookieToken, headerToken, "CSRF token missing")
  ELSE CsrfNextCalled(method, cookieToken, headerToken)

verifyCsrfToken(method, cookieToken, headerToken) ==
  IF method \in {"GET", "HEAD", "OPTIONS"}
  THEN CsrfNextCalled(method, cookieToken, headerToken)
  ELSE IF ~Truthy(cookieToken) \/ ~Truthy(headerToken)
  THEN CsrfRejected(method, cookieToken, headerToken, "CSRF token missing")
  ELSE IF cookieToken # headerToken
  THEN CsrfRejected(method, cookieToken, headerToken, "CSRF token invalid")
  ELSE CsrfNextCalled(method, cookieToken, headerToken)

CsrfInit ==
  /\ LimIdle /\ PipeIdle /\ ScanIdle /\ LoginIdle
  /\ isLocal \in BOOLEAN
  /\ ConnIdle
  /\ CsrfIdle
  /\ KeysIdle /\ JwtIdle /\ TfaIdle /\ WafIdle

CsrfVerifyRequest ==
  /\ \E method \in Methods, cookieToken \in CsrfTokenInputs,
        headerToken \in CsrfTokenInputs :
       csrfResponse' = verifyCsrfToken(method, cookieToken, headerToken)
  /\ UNCHANGED <<isLocal, keyVars, jwtVars, tfaVars, wafVars, limVars, pipeVars, scanVars, loginVars, connVars>>

CsrfNext == CsrfVerifyRequest

SpecCsrf == CsrfInit /\ [][CsrfNext]_vars

\* C8: verifyCsrfToken calls next() exactly when the method is GET, HEAD or OPTIONS,
\* or the csrfToken cookie and the x-csrf-token header are both present (a non-empty
\* value) and equal character for character; every other request is answered 403
\* and next() is not called; a request passed on is not answered.
C8_CsrfNextIffSafeOrMatching ==
  csrfResponse.handled =>
    LET safe == csrfResponse.method \in {"GET", "HEAD", "OPTIONS"}
        present(v) == v # <<>> /\ v # <<"">>
        matching == /\ present(csrfResponse.cookie)
                    /\ present(csrfResponse.header)
                    /\ csrfResponse.cookie = csrfResponse.header
    IN /\ csrfResponse.next <=> (safe \/ matching)
       /\ ~csrfResponse.next => csrfResponse.status = 403
       /\ csrfResponse.next => csrfResponse.status = 0

\* a state-changing request whose two tokens are present but differ was refused
C8_Witness ==
  /\ csrfResponse.handled
  /\ csrfResponse.method = "POST"
  /\ csrfResponse.cookie = <<"a1b2">>
  /\ csrfResponse.header = <<"A1B2">>
  /\ csrfResponse.status = 403
  /\ ~csrfResponse.next

-----------------------------------------------------------------------------
(* WAF (src/unnamed/part_008, class WAF and wafMiddleware) and the block    *)
(* list of src/src/middlewares/rate-limiter.middleware.js                   *)

requestsPerMinute == 100
requestsPerSecond == 10
minTotalRequests == 10

Loopback == {"127.0.0.1", "::1"}

\* the loopback address, an address geoip places in an allowed country and one it
\* places in a country that is not allowed
Addresses == {"127.0.0.1", "203.0.113.7", "198.51.100.9"}

\* geoip.lookup(clientIp).country
GeoCountry(clientIp) == IF clientIp = "198.51.100.9" THEN "FR" ELSE "ID"

\* the keys of WAF.attackPatterns
AttackCategories ==
  {"sqlInjection", "xss", "commandInjection", "pathTraversal", "filenames"}

\* a request: its address, its method, and for its url and its body the pattern
\* lists of attackPatterns that have a regex matching it
CleanGet == [method |-> "GET", url |-> {}, body |-> {}]
CleanPost == [method |-> "POST", url |-> {}, body |-> {}]
InjectionPost == [method |-> "POST", url |-> {}, body |-> {"sqlInjection", "xss"}]
TraversalGet == [method |-> "GET", url |-> {"pathTraversal"}, body |-> {}]

RequestInputs == {CleanGet, CleanPost, InjectionPost, TraversalGet}

\* how many equal requests an address sends at one clock reading: one, as many as
\* the per-second threshold, one more than it
BurstSizes == {1, requestsPerSecond, requestsPerSecond + 1}

\* no more than this many bursts are handled
MaxBursts == 2

\* the clock readings the clock is set to; paced traffic moves it second by second
WafInstants == {0, 1000, 311000}

\* paced traffic: ten clean requests a second for this many seconds
PacedSeconds == 10

\* setRuleEnabled: only an own property of activeRules is changed
setRuleEnabled(rules, rule, enable) ==
  IF rule \in DOMAIN rules THEN [rules EXCEPT ![rule] = enable] ELSE rules

\* the constructor's activeRules, then the options index.js passes to wafMiddleware,
\* applied rule by rule
StartupRules ==
  LET constructed ==
        [sqlInjection |-> TRUE, xss |-> TRUE, commandInjection |-> TRUE,
         path_traversal |-> TRUE, ddos |-> TRUE, geoblocking |-> ~isLocal]
      r1 == setRuleEnabled(constructed, "sqlInjection", TRUE)
      r2 == setRuleEnabled(r1, "xss", TRUE)
      r3 == setRuleEnabled(r2, "commandInjection", TRUE)
      r4 == setRuleEnabled(r3, "pathTraversal", TRUE)
      r5 == setRuleEnabled(r4, "ddos", TRUE)
  IN setRuleEnabled(r5, "geoblocking", ~isLocal)

\* the mutable state the request path works on
WafState == [counts |-> requestCounts, banned |-> blockedIPs, list |-> blockList]

NotBlocked == [blocked |-> FALSE, reason |-> "", category |-> ""]
Blocked(reason, category) ==
  [blocked |-> TRUE, reason |-> reason, category |-> category]

\* timestamps.filter(time => time > window).length
CountAfter(timestamps, window) ==
  Cardinality({i \in DOMAIN timestamps : timestamps[i] > window})

updateBlockList_Skipped(list, ipList) == list

\* updateBlockList: blockList.clear(), then every address of ipList is added
updateBlockList(list, ipList) == (list \ list) \cup ipList

\* a blockIP without the early return for the loopback addresses
blockIP_NoSkip(w, clientIp) ==
  [w EXCEPT !.banned = w.banned \cup {clientIp},
            !.list = updateBlockList(w.list, w.banned \cup {clientIp})]

\* blockIP: nothing is done for 127.0.0.1 and ::1
blockIP(w, clientIp) ==
  IF clientIp \in Loopback THEN w
  ELSE [w EXCEPT !.banned = w.banned \cup {clientIp},
                 !.list = updateBlockList(w.list, w.banned \cup {clientIp})]

\* a recordBadRequest that counts and never bans
recordBadRequest_CountOnly(w, clientIp) ==
  IF clientIp \in DOMAIN w.counts
  THEN [w EXCEPT !.counts[clientIp].badRequests = @ + 1]
  ELSE w

recordBadRequest(w, clientIp) ==
  IF clientIp \in DOMAIN w.counts
  THEN LET counted == [w EXCEPT !.counts[clientIp].badRequests = @ + 1]
           badRequests == counted.counts[clientIp].badRequests
           totalRequests == counted.counts[clientIp].totalRequests
       IN IF totalRequests > minTotalRequests /\ 2 * badRequests > totalRequests
          THEN blockIP(counted, clientIp)
          ELSE counted
  ELSE w

\* logAttack: the intrusion is logged and the request recorded as a bad request
\* a logAttack that records the bad request twice
logAttack_Twice(w, clientIp) == recordBadRequest(recordBadRequest(w, clientIp), clientIp)

\* logAttack: the intrusion is logged and the request recorded as a bad one
logAttack(w, clientIp) == recordBadRequest(w, clientIp)

trackRequest(w, clientIp, now) ==
  IF clientIp \notin DOMAIN w.counts
  THEN [w EXCEPT !.counts =
          MapSet(w.counts, clientIp,
                 [timestamps |-> <<now>>, badRequests |-> 0, totalRequests |-> 1])]
  ELSE [w EXCEPT !.counts[clientIp].timestamps = Append(@, now),
                 !.counts[clientIp].totalRequests = @ + 1]

analyzePayload(payload, category) ==
  category \in AttackCategories /\ category \in payload

inspectUrl(url) ==
  CASE analyzePayload(url, "sqlInjection") ->
         Blocked("Potensi SQL Injection terdeteksi di URL", "SQL_INJECTION")
    [] analyzePayload(url, "xss") ->
         Blocked("Potensi XSS terdeteksi di URL", "XSS")
    [] analyzePayload(url, "pathTraversal") ->
         Blocked("Potensi Path Traversal terdeteksi di URL", "PATH_TRAVERSAL")
    [] analyzePayload(url, "filenames") ->
         Blocked("Akses ke file sensitif terdeteksi", "SENSITIVE_FILE_ACCESS")
    [] OTHER -> NotBlocked

checkGeolocation(w, clientIp) ==
  IF clientIp \in Loopback THEN [w |-> w, result |-> NotBlocked]
  ELSE IF GeoCountry(clientIp) \notin allowedCountries
  THEN [w |-> logAttack(w, clientIp),
        result |-> Blocked("Akses dari negara tidak diizinkan", "GEO_BLOCKING")]
  ELSE [w |-> w, result |-> NotBlocked]

checkDDoS_SecondOnly(w, clientIp, now) ==
  IF clientIp \notin DOMAIN w.counts THEN [w |-> w, result |-> NotBlocked]
  ELSE IF CountAfter(w.counts[clientIp].timestamps, now - 1000) > requestsPerSecond
  THEN [w |-> blockIP(w, clientIp),
        result |-> Blocked("Rate limit terlampaui, potensi DDoS", "DDOS_PROTECTION")]
  ELSE [w |-> w, result |-> NotBlocked]

checkDDoS(w, clientIp, now) ==
  IF clientIp \notin DOMAIN w.counts THEN [w |-> w, result |-> NotBlocked]
  ELSE LET timestamps == w.counts[clientIp].timestamps
           requestsLastSecond == CountAfter(timestamps, now - 1000)
           requestsLastMinute == CountAfter(timestamps, now - 60000)
       IN IF \/ requestsLastSecond > requestsPerSecond
             \/ requestsLastMinute > requestsPerMinute
          THEN [w |-> blockIP(w, clientIp),
                result |-> Blocked("Rate limit terlampaui, potensi DDoS",
                                   "DDOS_PROTECTION")]
          ELSE [w |-> w, result |-> NotBlocked]

ddosStage(w, clientIp, now) ==
  IF activeRules.ddos THEN checkDDoS(w, clientIp, now)
  ELSE [w |-> w, result |-> NotBlocked]

\* the body scan of a request that is not a GET, then the DDoS check
inspectBody(w, clientIp, req, now) ==
  IF activeRules.sqlInjection /\ analyzePayload(req.body, "sqlInjection")
  THEN [w |-> logAttack(w, clientIp),
        result |-> Blocked("Potensi SQL Injection terdeteksi", "SQL_INJECTION")]
  ELSE IF activeRules.xss /\ analyzePayload(req.body, "xss")
  THEN [w |-> logAttack(w, clientIp),
        result |-> Blocked("Potensi Cross-Site Scripting (XSS) terdeteksi", "XSS")]
  ELSE IF activeRules.commandInjection
          /\ analyzePayload(req.body, "commandInjection")
  THEN [w |-> logAttack(w, clientIp),
        result |-> Blocked("Potensi Command Injection terdeteksi",
                           "COMMAND_INJECTION")]
  ELSE IF activeRules.path_traversal /\ analyzePayload(req.url, "pathTraversal")
  THEN [w |-> logAttack(w, clientIp),
        result |-> Blocked("Potensi Path Traversal terdeteksi", "PATH_TRAVERSAL")]
  ELSE ddosStage(w, clientIp, now)

inspectRequest(w, clientIp, req, now) ==
  IF ~wafEnabled THEN [w |-> w, result |-> NotBlocked]
  ELSE IF clientIp \in w.banned
  THEN [w |-> w, result |-> Blocked("IP address telah diblokir", "")]
  ELSE LET tracked == trackRequest(w, clientIp, now)
           geoResult == IF activeRules.geoblocking
                        THEN checkGeolocation(tracked, clientIp)
                        ELSE [w |-> tracked, result |-> NotBlocked]
       IN IF geoResult.result.blocked THEN geoResult
          ELSE IF req.method = "GET"
          THEN IF inspectUrl(req.url).blocked
               THEN [w |-> logAttack(tracked, clientIp),
                     result |-> inspectUrl(req.url)]
               ELSE ddosStage(tracked, clientIp, now)
          ELSE inspectBody(tracked, clientIp, req, now)

WafRejected(clientIp, wasBanned, message, code) ==
  [handled |-> TRUE, ip |-> clientIp, wasBanned |-> wasBanned, status |-> 403,
   message |-> message, code |-> code, next |-> FALSE]

WafNextCalled(clientIp, wasBanned) ==
  [handled |-> TRUE, ip |-> clientIp, wasBanned |-> wasBanned, status |-> 0,
   message |-> "", code |-> "", next |-> TRUE]

\* the function wafMiddleware returns
wafMiddleware(w, clientIp, req, now) ==
  LET inspectionResult == inspectRequest(w, clientIp, req, now)
      result == inspectionResult.result
  IN [w |-> inspectionResult.w,
      response |->
        IF result.blocked
        THEN WafRejected(clientIp, clientIp \in w.banned,
               IF result.reason # "" THEN result.reason
               ELSE "Permintaan diblokir oleh WAF",
               IF result.category # "" THEN result.category ELSE "WAF_BLOCKED")
        ELSE WafNextCalled(clientIp, clientIp \in w.banned)]

\* one request through ipBlocker and, when the stages in between pass it on, through
\* wafMiddleware
ipBlocker(w, clientIp, req, now) ==
  IF clientIp \in w.list
  THEN [w |-> w,
        response |-> WafRejected(clientIp, clientIp \in w.banned,
                       "Akses dari IP Anda diblokir. Silakan hubungi administrator.",
                       "IP_BLOCKED")]
  ELSE wafMiddleware(w, clientIp, req, now)

\* n equal requests at one clock reading, handled one after the other; the response
\* is the last one's
RECURSIVE HandleBurst(_, _, _, _, _)
HandleBurst(w, clientIp, req, now, n) ==
  IF n = 1 THEN ipBlocker(w, clientIp, req, now)
  ELSE ipBlocker(HandleBurst(w, clientIp, req, now, n - 1).w, clientIp, req, now)

\* a cleaner that filters the timestamps but never deletes an entry
cleanRequestCounts_KeepEntries(counts, now) ==
  LET recent(time) == time > now - 300000
  IN [ip \in DOMAIN counts |->
        [counts[ip] EXCEPT !.timestamps = SelectSeq(@, recent)]]

\* cleanRequestCounts: for every tracked address keep the timestamps after the
\* cutoff of five minutes, and delete the entry when none is left
cleanRequestCounts(counts, now) ==
  LET recent(time) == time > now - 300000
      kept == {ip \in DOMAIN counts :
                 SelectSeq(counts[ip].timestamps, recent) # <<>>}
  IN [ip \in kept |->
        [counts[ip] EXCEPT !.timestamps = SelectSeq(@, recent)]]

WafInit ==
  /\ LimIdle /\ PipeIdle /\ ScanIdle /\ LoginIdle
  /\ isLocal \in BOOLEAN
  /\ ConnIdle
  /\ wafEnabled = ~isLocal
  /\ activeRules = StartupRules
  /\ allowedCountries = DefaultCountries
  /\ requestCounts = <<>>
  /\ blockedIPs = {}
  /\ blockList = {}
  /\ wafNow = 0
  /\ wafBursts = 0
  /\ wafPacing = <<>>
  /\ wafResponse = NoWafResponse
  /\ KeysIdle /\ JwtIdle /\ TfaIdle /\ CsrfIdle

WafAdvanceTime ==
  /\ wafPacing = <<>>
  /\ \E t \in WafInstants : t > wafNow /\ wafNow' = t
  /\ wafResponse' = NoWafResponse
  /\ UNCHANGED <<allowedCountries, wafEnabled, activeRules, requestCounts, blockedIPs, blockList,
                 wafBursts, wafPacing>>
  /\ UNCHANGED <<isLocal, keyVars, jwtVars, tfaVars, csrfVars, limVars, pipeVars, scanVars, loginVars, connVars>>

WafRequest ==
  /\ wafPacing = <<>>
  /\ wafBursts < MaxBursts
  /\ \E clientIp \in Addresses, req \in RequestInputs, n \in BurstSizes :
       LET handled == HandleBurst(WafState, clientIp, req, wafNow, n)
       IN /\ requestCounts' = handled.w.counts
          /\ blockedIPs' = handled.w.banned
          /\ blockList' = handled.w.list
          /\ wafResponse' = handled.response
  /\ wafBursts' = wafBursts + 1
  /\ UNCHANGED <<allowedCountries, wafEnabled, activeRules, wafNow, wafPacing>>
  /\ UNCHANGED <<isLocal, keyVars, jwtVars, tfaVars, csrfVars, limVars, pipeVars, scanVars, loginVars, connVars>>

\* the first traffic the server sees is one address sending ten clean requests a
\* second for PacedSeconds seconds: one step is one second of it
WafPacedTraffic ==
  /\ \E clientIp \in Addresses :
       LET handled == HandleBurst(WafState, clientIp, CleanGet, wafNow, 10)
       IN /\ \/ /\ wafPacing = <<>>
                /\ wafNow = 0
                /\ wafBursts = 0
                /\ wafPacing' = <<clientIp, PacedSeconds - 1>>
             \/ /\ wafPacing # <<>>
                /\ wafPacing[1] = clientIp
                /\ wafPacing' = IF wafPacing[2] = 1 THEN <<>>
                                ELSE <<clientIp, wafPacing[2] - 1>>
          /\ requestCounts' = handled.w.counts
          /\ blockedIPs' = handled.w.banned
          /\ blockList' = handled.w.list
          /\ wafResponse' = NoWafResponse
  /\ wafNow' = wafNow + 1000
  /\ UNCHANGED <<allowedCountries, wafEnabled, activeRules, wafBursts>>
  /\ UNCHANGED <<isLocal, keyVars, jwtVars, tfaVars, csrfVars, limVars, pipeVars, scanVars, loginVars, connVars>>

\* the housekeeping timer
WafCleanRequestCounts ==
  /\ wafPacing = <<>>
  /\ requestCounts' = cleanRequestCounts(requestCounts, wafNow)
  /\ UNCHANGED <<allowedCountries, wafEnabled, activeRules, blockedIPs, blockList, wafNow, wafBursts,
                 wafPacing, wafResponse>>
  /\ UNCHANGED <<isLocal, keyVars, jwtVars, tfaVars, csrfVars, limVars, pipeVars, scanVars, loginVars, connVars>>

WafNext ==
  \/ WafAdvanceTime
  \/ WafRequest
  \/ WafPacedTraffic
  \/ WafCleanRequestCounts

SpecWaf == WafInit /\ [][WafNext]_vars

-----------------------------------------------------------------------------
\* Claims about the WAF and the block list (SpecWaf)

C7_BlockListIsBanSet == blockList = blockedIPs

\* two bans were made, and the second left the first in the block list
C7_Witness ==
  /\ Cardinality(blockedIPs) >= 2
  /\ blockList = blockedIPs

\* C20 as stated: an address with more than 10 counted requests of which more than
\* half were detections is in the ban set.
C20_RatioAlwaysBans ==
  \A ip \in DOMAIN requestCounts :
    (/\ requestCounts[ip].totalRequests > 10
     /\ 2 * requestCounts[ip].badRequests > requestCounts[ip].totalRequests)
    => ip \in blockedIPs

\* C20, amended: every request the WAF refuses for a detection (a signature match or
\* the country) is counted as a bad request of its address, one for one with the
\* requests tracked; a detection that leaves an address other than the loopback
\* addresses with more than 10 counted requests and more than half of them
\* detections has put the address into the ban set and the block list, whatever its
\* request rate; housekeeping changes neither the ban set nor the counters of an
\* address it keeps.
C20_DetectionRatioBans ==
  /\ [](LET ip == wafResponse.ip IN
          (/\ wafResponse.handled
           /\ wafResponse.code \in {"SQL_INJECTION", "XSS", "COMMAND_INJECTION",
                                     "PATH_TRAVERSAL", "SENSITIVE_FILE_ACCESS",
                                     "GEO_BLOCKING"}
           /\ ip \notin {"127.0.0.1", "::1"}
           /\ ip \in DOMAIN requestCounts
           /\ requestCounts[ip].totalRequests > 10
           /\ 2 * requestCounts[ip].badRequests > requestCounts[ip].totalRequests)
          => (ip \in blockedIPs /\ ip \in blockList))
  /\ [][LET ip == wafResponse'.ip
            bad(counts) == IF ip \in DOMAIN counts THEN counts[ip].badRequests ELSE 0
            total(counts) == IF ip \in DOMAIN counts THEN counts[ip].totalRequests
                             ELSE 0
        IN (/\ wafBursts' = wafBursts + 1
            /\ wafResponse'.handled
            /\ wafResponse'.code \in {"SQL_INJECTION", "XSS", "COMMAND_INJECTION",
                                       "PATH_TRAVERSAL", "SENSITIVE_FILE_ACCESS",
                                       "GEO_BLOCKING"})
           => /\ bad(requestCounts') > bad(requestCounts)
              /\ bad(requestCounts') - bad(requestCounts)
                   = total(requestCounts') - total(requestCounts)]_vars
  /\ [][(wafBursts' = wafBursts /\ wafPacing' = wafPacing /\ wafNow' = wafNow)
         => /\ blockedIPs' = blockedIPs
            /\ blockList' = blockList
            /\ \A ip \in DOMAIN requestCounts' :
                 /\ ip \in DOMAIN requestCounts
                 /\ requestCounts'[ip].badRequests = requestCounts[ip].badRequests
                 /\ requestCounts'[ip].totalRequests
                      = requestCounts[ip].totalRequests]_vars

\* ten detections in one second, then an eleventh a second later: the address is
\* banned by the ratio, with one request in the last second and eleven in the last
\* minute
C20_Witness ==
  /\ wafResponse.handled
  /\ wafResponse.code = "SQL_INJECTION"
  /\ ~wafResponse.wasBanned
  /\ wafResponse.ip \in blockedIPs
  /\ wafResponse.ip \in DOMAIN requestCounts
  /\ requestCounts[wafResponse.ip].totalRequests > 10
  /\ CountAfter(requestCounts[wafResponse.ip].timestamps, wafNow - 1000) <= 10
  /\ CountAfter(requestCounts[wafResponse.ip].timestamps, wafNow - 60000) <= 100

\* C30: after a run of cleanRequestCounts no tracked address keeps a timestamp older
\* than five minutes (300000 ms before the clock reading of the run) and no tracked
\* address is left with an empty list of timestamps; the run changes neither the ban
\* set, nor the rule toggles, nor the list of allowed countries.  The run is the
\* step that handles no request and leaves the clock alone.
C30_HousekeepingPrunes ==
  [][(wafBursts' = wafBursts /\ wafPacing' = wafPacing /\ wafNow' = wafNow)
       => /\ \A ip \in DOMAIN requestCounts' :
               /\ requestCounts'[ip].timestamps # <<>>
               /\ \A i \in DOMAIN requestCounts'[ip].timestamps :
                    ~(requestCounts'[ip].timestamps[i] < wafNow - 300000)
          /\ blockedIPs' = blockedIPs
          /\ activeRules' = activeRules
          /\ allowedCountries' = allowedCountries]_vars

\* a run has pruned an address that is still tracked: it has made more requests than
\* it has timestamps, and all the timestamps it keeps are of the last five minutes
C30_Witness ==
  \E ip \in DOMAIN requestCounts :
    /\ requestCounts[ip].timestamps # <<>>
    /\ requestCounts[ip].totalRequests > Len(requestCounts[ip].timestamps)
    /\ \A i \in DOMAIN requestCounts[ip].timestamps :
         requestCounts[ip].timestamps[i] > wafNow - 300000

\* a run has deleted the entry of an address: the address is banned, which takes a
\* tracked request, and is tracked no more
C30_EntryDeletedWitness ==
  \E ip \in blockedIPs : ip \notin DOMAIN requestCounts

\* C36: every tracked address has made at least one request and no more bad requests
\* than requests; and whatever request arrives next, from whatever address: if the
\* WAF is enabled and the address is not in the ban set, the address's totalRequests
\* goes up by exactly one (from 0 when it was not tracked) and its badRequests by
\* zero or one; otherwise no counter changes; the counters of the other addresses
\* never change.
C36_CountersConsistent ==
  /\ \A ip \in DOMAIN requestCounts :
       /\ requestCounts[ip].totalRequests >= 1
       /\ requestCounts[ip].badRequests >= 0
       /\ requestCounts[ip].badRequests <= requestCounts[ip].totalRequests
  /\ \A clientIp \in Addresses, req \in RequestInputs :
       LET after == ipBlocker(WafState, clientIp, req, wafNow).w.counts
           total(counts) == IF clientIp \in DOMAIN counts
                            THEN counts[clientIp].totalRequests ELSE 0
           bad(counts) == IF clientIp \in DOMAIN counts
                          THEN counts[clientIp].badRequests ELSE 0
       IN /\ IF wafEnabled /\ clientIp \notin blockedIPs
             THEN /\ total(after) = total(requestCounts) + 1
                  /\ bad(after) - bad(requestCounts) \in {0, 1}
             ELSE after = requestCounts
          /\ \A other \in Addresses \ {clientIp} :
               /\ other \in DOMAIN after <=> other \in DOMAIN requestCounts
               /\ other \in DOMAIN after => after[other] = requestCounts[other]

\* an address that was banned for its detections has asked again: it was refused as
\* banned, and its counters show as many bad requests as requests
C36_Witness ==
  /\ wafResponse.handled
  /\ wafResponse.wasBanned
  /\ wafResponse.ip \in DOMAIN requestCounts
  /\ requestCounts[wafResponse.ip].badRequests > 0
  /\ requestCounts[wafResponse.ip].badRequests
       = requestCounts[wafResponse.ip].totalRequests

-----------------------------------------------------------------------------
\* Bans and the loopback addresses (SpecWafBan): the WAF of SpecWaf, with requests
\* from both loopback addresses and from two others

BanAddresses == Addresses \cup Loopback

BanRequest ==
  /\ wafPacing = <<>>
  /\ wafBursts < MaxBursts
  /\ \E clientIp \in BanAddresses, req \in RequestInputs, n \in BurstSizes :
       LET handled == HandleBurst(WafState, clientIp, req, wafNow, n)
       IN /\ requestCounts' = handled.w.counts
          /\ blockedIPs' = handled.w.banned
          /\ blockList' = handled.w.list
          /\ wafResponse' = handled.response
  /\ wafBursts' = wafBursts + 1
  /\ UNCHANGED <<allowedCountries, wafEnabled, activeRules, wafNow, wafPacing>>
  /\ UNCHANGED <<isLocal, keyVars, jwtVars, tfaVars, csrfVars, limVars, pipeVars, scanVars, loginVars, connVars>>

BanNext ==
  \/ BanRequest
  \/ WafAdvanceTime

SpecWafBan == WafInit /\ [][BanNext]_vars

\* the address has more tracked requests in the last second or minute than the
\* DDoS thresholds allow, or more than 10 requests of which over half were detections
OverThresholds(ip) ==
  /\ ip \in DOMAIN requestCounts
  /\ \/ CountAfter(requestCounts[ip].timestamps, wafNow - 1000) > requestsPerSecond
     \/ CountAfter(requestCounts[ip].timestamps, wafNow - 60000) > requestsPerMinute
     \/ /\ requestCounts[ip].totalRequests > minTotalRequests
        /\ 2 * requestCounts[ip].badRequests > requestCounts[ip].totalRequests

\* C35 as stated: 127.0.0.1 and ::1 are never in the ban set, and every other
\* address that is over the DDoS thresholds or the bad-request ratio is in it.
C35_EveryOtherAddressBanned ==
  /\ blockedIPs \cap Loopback = {}
  /\ \A ip \in BanAddresses \ Loopback : OverThresholds(ip) => ip \in blockedIPs

\* C35, amended: 127.0.0.1 and ::1 are never in the ban set.  Any other address is
\* in the ban set and the block list once the DDoS check has refused a request of it
\* (403 DDOS_PROTECTION), and once a detection (a signature match or the
\* geo-restriction) has left it with more than 10 requests of which over half were
\* detections.
C35_LoopbackNeverBanned ==
  /\ blockedIPs \cap Loopback = {}
  /\ (wafResponse.handled /\ wafResponse.ip \notin Loopback)
       => LET ip == wafResponse.ip IN
          /\ wafResponse.code = "DDOS_PROTECTION"
               => (ip \in blockedIPs /\ ip \in blockList)
          /\ (/\ wafResponse.code \in {"SQL_INJECTION", "XSS", "COMMAND_INJECTION",
                                        "PATH_TRAVERSAL", "SENSITIVE_FILE_ACCESS",
                                        "GEO_BLOCKING"}
              /\ requestCounts[ip].totalRequests > minTotalRequests
              /\ 2 * requestCounts[ip].badRequests > requestCounts[ip].totalRequests)
               => (ip \in blockedIPs /\ ip \in blockList)

\* the DDoS check has refused the eleventh request in a second of ::1, and ::1 is
\* not in the ban set
C35_Witness ==
  /\ wafResponse.handled
  /\ wafResponse.ip = "::1"
  /\ wafResponse.code = "DDOS_PROTECTION"
  /\ CountAfter(requestCounts["::1"].timestamps, wafNow - 1000) > requestsPerSecond
  /\ "::1" \notin blockedIPs

\* more than half of the eleven requests of 127.0.0.1 were detections, and it is not
\* in the ban set
C35_RatioWitness ==
  /\ wafResponse.handled
  /\ wafResponse.ip = "127.0.0.1"
  /\ wafResponse.code = "SQL_INJECTION"
  /\ requestCounts["127.0.0.1"].totalRequests > minTotalRequests
  /\ 2 * requestCounts["127.0.0.1"].badRequests
       > requestCounts["127.0.0.1"].totalRequests
  /\ "127.0.0.1" \notin blockedIPs

\* an address that is not a loopback address was banned by the DDoS check
C35_OtherBannedWitness ==
  /\ wafResponse.handled
  /\ wafResponse.ip \notin Loopback
  /\ wafResponse.code = "DDOS_PROTECTION"
  /\ wafResponse.ip \in blockedIPs

-----------------------------------------------------------------------------
(* Rate limiters: src/src/middlewares/rate-limiter.middleware.js.  A        *)
(* limiter is express-rate-limit's middleware: a request the skip option    *)
(* exempts is passed on uncounted; otherwise the store's counter of the     *)
(* request's key is incremented and the request is handed to the handler    *)
(* option when the counter exceeds max, and passed on when it does not.     *)

\* the max of the limiter the route layer makes afterwards, lateLimiter:
\* createLimiter({ max: LateMax })
LateMax == 2

LimiterMax(limiter) ==
  CASE limiter = "apiLimiter" -> 100
    [] limiter = "authLimiter" -> 10
    [] limiter = "sensitiveLimiter" -> 30
    [] limiter = "productionRateLimiter" -> 100
    [] OTHER -> LateMax

\* options.message.code
LimiterCode(limiter) ==
  CASE limiter = "authLimiter" -> "AUTH_ATTEMPTS_EXCEEDED"
    [] limiter = "sensitiveLimiter" -> "SENSITIVE_RATE_EXCEEDED"
    [] limiter = "productionRateLimiter" -> ""
    [] OTHER -> "RATE_LIMIT_EXCEEDED"

\* req.ip of the callers, and req.user (<<>>: not set)
LimiterKeys == {"127.0.0.1", "203.0.113.7"}

LimiterUsers == {<<>>, <<[role |-> "admin"]>>, <<[role |-> "parent"]>>}

\* no more than this many bursts of requests are handled
MaxLimBursts == 2

\* createLimiter: the store the new limiter counts in from then on
StoreAtCreation(available, client) ==
  IF available /\ client THEN "redis" ELSE "memory"

\* defaultLimiterOptions.skip
skip(ip, user) ==
  isLocal /\ ip = "127.0.0.1" /\ user # <<>> /\ user[1].role = "admin"

HitsOf(hits, limiter, key) ==
  IF <<limiter, key>> \in DOMAIN hits THEN hits[<<limiter, key>>] ELSE 0

\* the store's counter of a key after an increment
HitsSet(hits, limiter, key, totalHits) == (<<limiter, key>> :> totalHits) @@ hits

LimState == [memory |-> memoryHits, redis |-> redisHits]

\* defaultLimiterOptions.handler: res.status(429).json(options.message)
LimRejected(limiter) ==
  [next |-> FALSE, failed |-> FALSE, status |-> 429, code |-> LimiterCode(limiter)]

\* the store's increment rejected (or never answers): the error goes to the error
\* handler, the request is not passed on
LimFailed == [next |-> FALSE, failed |-> TRUE, status |-> 500, code |-> ""]

\* one request through the limiter
limiterHandle(s, limiter, key, user) ==
  IF skip(key, user) THEN [s |-> s, verdict |-> LimPassed]
  ELSE IF limiterStore[limiter] = "redis"
  THEN IF redisLink # "up" THEN [s |-> s, verdict |-> LimFailed]
       ELSE LET totalHits == HitsOf(s.redis, limiter, key) + 1 IN
            [s |-> [s EXCEPT !.redis = HitsSet(s.redis, limiter, key, totalHits)],
             verdict |-> IF totalHits > LimiterMax(limiter)
                         THEN LimRejected(limiter) ELSE LimPassed]
  ELSE LET totalHits == HitsOf(s.memory, limiter, key) + 1 IN
       [s |-> [s EXCEPT !.memory = HitsSet(s.memory, limiter, key, totalHits)],
        verdict |-> IF totalHits > LimiterMax(limiter)
                    THEN LimRejected(limiter) ELSE LimPassed]

\* n requests of one caller, one after the other; the verdict is the last one's and
\* passed counts the requests passed on
RECURSIVE LimiterBurst(_, _, _, _, _)
LimiterBurst(s, limiter, key, user, n) ==
  IF n = 0 THEN [s |-> s, verdict |-> LimPassed, passed |-> 0]
  ELSE LET earlier == LimiterBurst(s, limiter, key, user, n - 1)
           last == limiterHandle(earlier.s, limiter, key, user)
       IN [s |-> last.s, verdict |-> last.verdict,
           passed |-> earlier.passed + (IF last.verdict.next THEN 1 ELSE 0)]

\* a caller's requests arrive in batches of at most this many
LimBatch == 10

\* the module has loaded: the Redis client, when configured outside local mode, is
\* connecting, and the three limiters were created in the same synchronous run
LimInit ==
  /\ isLocal \in BOOLEAN
  /\ ConnIdle
  /\ KeysIdle /\ JwtIdle /\ TfaIdle /\ CsrfIdle /\ WafIdle /\ PipeIdle /\ ScanIdle
  /\ LoginIdle
  /\ \E configured \in BOOLEAN :
       /\ redisLink = IF ~isLocal /\ configured THEN "connecting" ELSE "none"
       /\ limiterStore = [l \in LoadLimiters |->
                            StoreAtCreation(FALSE, ~isLocal /\ configured)]
  /\ isRedisAvailable = FALSE
  /\ memoryHits = <<>>
  /\ redisHits = <<>>
  /\ limBursts = 0
  /\ limResponse = NoLimResponse

\* redisClient.on('connect')
RedisConnect ==
  /\ redisLink \in {"connecting", "down"}
  /\ redisLink' = "up"
  /\ isRedisAvailable' = TRUE
  /\ limResponse' = NoLimResponse
  /\ UNCHANGED <<limiterStore, memoryHits, redisHits, limBursts>>
  /\ UNCHANGED <<isLocal, keyVars, jwtVars, tfaVars, csrfVars, wafVars, pipeVars, scanVars, loginVars, connVars>>

\* redisClient.on('error')
RedisError ==
  /\ redisLink \in {"connecting", "up"}
  /\ redisLink' = "down"
  /\ isRedisAvailable' = FALSE
  /\ limResponse' = NoLimResponse
  /\ UNCHANGED <<limiterStore, memoryHits, redisHits, limBursts>>
  /\ UNCHANGED <<isLocal, keyVars, jwtVars, tfaVars, csrfVars, wafVars, pipeVars, scanVars, loginVars, connVars>>

\* the route layer calls createLimiter({ max: LateMax })
CreateLimiter ==
  /\ "lateLimiter" \notin DOMAIN limiterStore
  /\ limiterStore' = MapSet(limiterStore, "lateLimiter",
                            StoreAtCreation(isRedisAvailable, redisLink # "none"))
  /\ limResponse' = NoLimResponse
  /\ UNCHANGED <<redisLink, isRedisAvailable, memoryHits, redisHits, limBursts>>
  /\ UNCHANGED <<isLocal, keyVars, jwtVars, tfaVars, csrfVars, wafVars, pipeVars, scanVars, loginVars, connVars>>

\* a caller sends requests within one window, one more than the limiter's max in
\* all: batch after batch up to max, then the one beyond.  limResponse keeps the
\* account of the caller's requests so far; the caller goes on until the account is
\* closed by a window's end or a change of the Redis link.
LimiterRequest ==
  /\ \E limiter \in DOMAIN limiterStore, key \in LimiterKeys, user \in LimiterUsers :
       LET goesOn == /\ limResponse.handled
                     /\ limResponse.limiter = limiter
                     /\ limResponse.key = key
                     /\ limResponse.user = user
           sentSoFar == IF goesOn THEN limResponse.sent ELSE 0
           passedSoFar == IF goesOn THEN limResponse.passed ELSE 0
           left == LimiterMax(limiter) - sentSoFar
           n == IF left <= 0 THEN 1 ELSE IF left < LimBatch THEN left ELSE LimBatch
           hits == IF limiterStore[limiter] = "redis" THEN redisHits ELSE memoryHits
           handled == LimiterBurst(LimState, limiter, key, user, n)
       IN /\ sentSoFar <= LimiterMax(limiter)
          /\ goesOn \/ limBursts < MaxLimBursts
          /\ limBursts' = IF goesOn THEN limBursts ELSE limBursts + 1
          /\ memoryHits' = handled.s.memory
          /\ redisHits' = handled.s.redis
          /\ limResponse' =
               [handled |-> TRUE, limiter |-> limiter, key |-> key, user |-> user,
                store |-> limiterStore[limiter], linkUp |-> redisLink = "up",
                before |-> IF goesOn THEN limResponse.before
                           ELSE HitsOf(hits, limiter, key),
                sent |-> sentSoFar + n, passed |-> passedSoFar + handled.passed,
                counted |-> IF handled.s.memory # memoryHits THEN "memory"
                            ELSE IF handled.s.redis # redisHits THEN "redis"
                            ELSE "none",
                verdict |-> handled.verdict]
  /\ UNCHANGED <<redisLink, isRedisAvailable, limiterStore>>
  /\ UNCHANGED <<isLocal, keyVars, jwtVars, tfaVars, csrfVars, wafVars, pipeVars, scanVars, loginVars, connVars>>

\* a limiter's window ends: its counters start again from zero
LimiterWindowReset ==
  /\ \E limiter \in DOMAIN limiterStore :
       /\ \E k \in LimiterKeys :
            <<limiter, k>> \in (DOMAIN memoryHits) \cup (DOMAIN redisHits)
       /\ memoryHits' = [p \in {q \in DOMAIN memoryHits : q[1] # limiter} |->
                           memoryHits[p]]
       /\ redisHits' = [p \in {q \in DOMAIN redisHits : q[1] # limiter} |->
                          redisHits[p]]
  /\ limResponse' = NoLimResponse
  /\ UNCHANGED <<redisLink, isRedisAvailable, limiterStore, limBursts>>
  /\ UNCHANGED <<isLocal, keyVars, jwtVars, tfaVars, csrfVars, wafVars, pipeVars, scanVars, loginVars, connVars>>

LimNext ==
  \/ RedisConnect
  \/ RedisError
  \/ CreateLimiter
  \/ LimiterRequest
  \/ LimiterWindowReset

SpecLimiter == LimInit /\ [][LimNext]_vars

-----------------------------------------------------------------------------
\* Claims about the rate limiters (SpecLimiter)

\* C16 as stated, for callers the skip option does not exempt: of the requests a
\* caller sent to a limiter with max N in one window, those up to the N-th of the
\* window were passed on and no other; a request within the first N is passed, a
\* request beyond is answered 429 with the limiter's code; a window's end puts the
\* caller's count back to zero.
C16_MaxPerWindow ==
  /\ limResponse.handled /\ ~skip(limResponse.key, limResponse.user)
     => LET N == LimiterMax(limResponse.limiter)
            room == IF limResponse.before >= N THEN 0 ELSE N - limResponse.before
        IN /\ limResponse.passed
                = (IF limResponse.sent < room THEN limResponse.sent ELSE room)
           /\ limResponse.before + limResponse.sent <= N => limResponse.verdict.next
           /\ limResponse.before + limResponse.sent > N
              => /\ ~limResponse.verdict.next
                 /\ limResponse.verdict.status = 429
                 /\ limResponse.verdict.code = LimiterCode(limResponse.limiter)

\* C17 as stated: the requests a limiter counts are counted in Redis when the Redis
\* link is up and in local memory when it is not, and no request fails because of
\* the store.
C17_StoreFollowsRedis ==
  limResponse.handled
    => /\ ~limResponse.verdict.failed
       /\ limResponse.counted # "none"
          => (limResponse.counted = "redis") = limResponse.linkUp

-----------------------------------------------------------------------------
(* The middleware chain: index.js (src/src/security/crypto.js 2488-2577),   *)
(* setupEnvironmentMiddleware (src/unnamed/part_003) and the guards routes  *)
(* put in front of their handlers.  Middlewares that only set headers or    *)
(* log (helmet, HSTS, requestLogger, setCsrfToken, ...) always call next()  *)
(* and are left out.  One request is in flight at a time; what a stage      *)
(* reads from the request is chosen when the stage runs.                    *)

\* the stages every request meets, in app.use order
BaseChain_WafFirst ==
  <<"wafMiddleware", "ipBlocker", "validateHeaders", "apiLimiter",
    "securityHandshake", "productionRateLimiter", "verifyCsrfToken">>

BaseChain ==
  <<"ipBlocker", "validateHeaders", "apiLimiter", "wafMiddleware",
    "securityHandshake", "productionRateLimiter", "verifyCsrfToken">>

\* request paths, segment by segment: /, /api/auth/login, /api/auth/verify, and two
\* mounted routers taken to guard their routes with the exported helpers:
\* /api/apps for parents, /api/content-filter for admins
RootPath == <<>>
LoginPath == <<"api", "auth", "login">>
VerifyPath == <<"api", "auth", "verify">>
AppsPath == <<"api", "apps">>
AdminPath == <<"api", "content-filter">>

PipePaths == {RootPath, LoginPath, VerifyPath, AppsPath, AdminPath}

PathStartsWith(path, prefix) ==
  Len(path) >= Len(prefix) /\ SubSeq(path, 1, Len(prefix)) = prefix

\* req.path inside a handler mounted with app.use('/api/*', ...): express strips
\* what the mount pattern matched, and the wildcard matches the whole path
MountedPath(path) == SubSeq(path, Len(path) + 1, Len(path))

\* app.use('/api/*', ...) runs verifyCsrfToken unless req.path starts with
\* /api/children
CsrfApplies(path) ==
  /\ PathStartsWith(path, <<"api">>) /\ Len(path) > 1
  /\ ~PathStartsWith(MountedPath(path), <<"api", "children">>)

\* the guards between the chain and the route's handler (a route's input
\* validators count as part of its handler)
GuardsOf(method, path) ==
  CASE path = LoginPath -> <<"authLimiter">>
    [] path = VerifyPath ->
         IF method = "GET" THEN <<"authLimiter", "authJWT">> ELSE <<"authLimiter">>
    [] path = AppsPath -> <<"authJWT", "requireParentRole">>
    [] path = AdminPath -> <<"authJWT", "requireTwoFactor">>
    [] OTHER -> <<>>

\* authJWT's roles option on the route
RolesOption(path) == IF path = AdminPath THEN {"admin"} ELSE {}

StageMounted(stage, path) ==
  CASE stage \in {"securityHandshake", "productionRateLimiter"} -> ~isLocal
    [] stage = "verifyCsrfToken" -> CsrfApplies(path)
    [] OTHER -> TRUE

ChainFor(req) ==
  SelectSeq(BaseChain, LAMBDA stage : StageMounted(stage, req.path))
    \o GuardsOf(req.method, req.path)

\* what a stage did with the request
StageNext == [sent |-> FALSE, next |-> TRUE, status |-> 0, fields |-> {}, code |-> ""]

\* a stage that sends its response and calls next() all the same
StageSent_AndNext(status, fields, code) ==
  [sent |-> TRUE, next |-> TRUE, status |-> status, fields |-> fields, code |-> code]

StageSent(status, fields, code) ==
  [sent |-> TRUE, next |-> FALSE, status |-> status, fields |-> fields, code |-> code]

\* a JSON body with success and message, and with code when the stage sets one
BodyFields(code) ==
  IF code = "" THEN {"success", "message"} ELSE {"success", "message", "code"}

\* ipBlocker
blockListCheck(list, clientIp) ==
  IF clientIp \in list
  THEN StageSent(403, {"success", "message", "code"}, "IP_BLOCKED")
  ELSE StageNext

\* an Origin or Referer header: <<>> when absent, else <<head, rest>>, the value
\* being head followed by rest
HeaderInputs ==
  {<<>>, <<"https://tracas.id", "">>, <<"https://tracas.id", ".evil.example">>,
   <<"http://localhost:3000", "">>, <<"https://evil.example", "">>}

StartsWith(value, prefix) == value # <<>> /\ value[1] = prefix

allowedOrigins ==
  IF isLocal THEN {"http://localhost:3000", "http://localhost:5173"}
  ELSE {"https://tracas.id", "https://app.tracas.id"}

validateHeaders(origin, referer) ==
  LET isValidOrigin ==
        \E allowed \in allowedOrigins :
          StartsWith(origin, allowed) \/ StartsWith(referer, allowed)
  IN IF ~isValidOrigin /\ ~isLocal
     THEN StageSent(403, {"success", "message", "error"}, "")
     ELSE StageNext

\* a limiter's verdict as a stage verdict
LimiterStage(verdict) ==
  IF verdict.next THEN StageNext
  ELSE StageSent(verdict.status, BodyFields(verdict.code), verdict.code)

\* wafMiddleware's and verifyCsrfToken's responses as stage verdicts
WafStage(response) ==
  IF response.next THEN StageNext
  ELSE StageSent(response.status, {"success", "message", "code"}, response.code)

CsrfStage(response) ==
  IF response.next THEN StageNext
  ELSE StageSent(response.status, {"success", "message"}, "")

\* securityHandshake: the x-tracas-sign header is present and valid, or not
securityHandshake(signatureValid) ==
  IF isLocal THEN StageNext
  ELSE IF ~signatureValid THEN StageSent(403, {"success", "message"}, "")
  ELSE StageNext

\* authJWT(options)(req, res, next) for a request without a refresh token
authJWT(token, required, roles) ==
  IF token = <<>>
  THEN IF required THEN Reject(token, 401, "") ELSE Pass(token, <<>>, {})
  ELSE LET res == verifyToken(token[1]) IN
       IF ~res.ok THEN AuthErrorResponse(token, res.error)
       ELSE IF roles # {}
               /\ (~Has(res.decoded, "role") \/ res.decoded.role \notin roles)
       THEN Reject(token, 403, "")
       ELSE Pass(token, <<res.decoded>>, {})

AuthStage(response) ==
  IF response.next THEN StageNext
  ELSE StageSent(response.status, BodyFields(response.code), response.code)

\* requireParentRole (requireAdminRole and requireDeviceRole differ in the role)
requireParentRole(user) ==
  IF user = <<>> \/ ~Has(user[1], "role") \/ user[1].role # "parent"
  THEN StageSent(403, {"success", "message"}, "")
  ELSE StageNext

\* req.session: undefined (<<>>), or a session object
SessionInputs ==
  {<<>>, <<[userId |-> 3]>>, <<[twoFactorVerified |-> FALSE]>>,
   <<[twoFactorVerified |-> TRUE]>>}

\* req.session && req.session.twoFactorVerified, as a truth value
session2FAVerified(session) ==
  /\ session # <<>>
  /\ Has(session[1], "twoFactorVerified")
  /\ session[1].twoFactorVerified

\* a requireTwoFactor that never looks at the session
requireTwoFactor_NoSession(user, verified) == StageNext

\* requireTwoFactor()(req, res, next); verified is session2FAVerified
requireTwoFactor(user, verified) ==
  IF user # <<>> /\ Has(user[1], "role") /\ user[1].role = "admin" /\ ~verified
  THEN StageSent(403, {"success", "message", "requireTwoFactor"}, "")
  ELSE StageNext

\* the tokens requests carry: none, a parent's, an admin's, an expired one, one
\* with a forged signature, one bound to another device secret
AdminPayload ==
  [userId |-> 3, username |-> "root", role |-> "admin", deviceId |-> "admin-device-003"]

ExpiredToken ==
  JwtSign(Spread(TokenPayload(LoginPayload, TRUE), [iat |-> 0 - AccessLifetime]),
          privateKey, AccessLifetime)

PipeTokens ==
  {<<>>,
   <<generateToken(LoginPayload, AccessLifetime, TRUE, privateKey)>>,
   <<generateToken(AdminPayload, AccessLifetime, TRUE, privateKey)>>,
   <<ExpiredToken>>,
   <<ForgedSignature(generateToken(LoginPayload, AccessLifetime, TRUE, privateKey))>>,
   <<LegacyToken>>}

\* no more than this many requests are sent
MaxPipeRequests == 2

\* the server has been up for a while: nothing happened yet, or (outside local mode)
\* 203.0.113.7 was banned for a burst of 11 requests, or it has spent its 100
\* requests of the current window; the tracked timestamps are older than five
\* minutes and were pruned
PipeInit ==
  /\ isLocal \in BOOLEAN
  /\ ConnIdle
  /\ KeysIdle /\ JwtIdle /\ TfaIdle /\ CsrfIdle
  /\ PipeIdle /\ ScanIdle /\ LoginIdle
  /\ wafEnabled = ~isLocal
  /\ activeRules = StartupRules
  /\ allowedCountries = DefaultCountries
  /\ requestCounts = <<>>
  /\ wafNow = 0
  /\ wafBursts = 0
  /\ wafPacing = <<>>
  /\ wafResponse = NoWafResponse
  /\ redisLink = "none"
  /\ isRedisAvailable = FALSE
  /\ limiterStore = [l \in LoadLimiters \cup {"productionRateLimiter"} |-> "memory"]
  /\ redisHits = <<>>
  /\ limBursts = 0
  /\ limResponse = NoLimResponse
  /\ \E earlier \in {"nothing", "banned", "spent"} :
       /\ earlier = "banned" => ~isLocal
       /\ blockedIPs = IF earlier = "banned" THEN {"203.0.113.7"} ELSE {}
       /\ blockList = updateBlockList({}, blockedIPs)
       /\ memoryHits =
            CASE earlier = "banned" ->
                   (<<"apiLimiter", "203.0.113.7">> :> 11)
                     @@ (<<"productionRateLimiter", "203.0.113.7">> :> 10)
              [] earlier = "spent" /\ ~isLocal ->
                   (<<"apiLimiter", "203.0.113.7">> :> 100)
                     @@ (<<"productionRateLimiter", "203.0.113.7">> :> 100)
              [] earlier = "spent" /\ isLocal ->
                   (<<"apiLimiter", "203.0.113.7">> :> 100)
              [] OTHER -> <<>>

\* a request arrives
PipeArrive ==
  /\ pipeStage = 0
  /\ pipeRequests < MaxPipeRequests
  /\ \E ip \in Addresses, method \in {"GET", "POST"}, path \in PipePaths :
       pipeReq' = [ip |-> ip, method |-> method, path |-> path]
  /\ pipeStage' = 1
  /\ pipeRan' = <<>>
  /\ pipeResponse' = <<>>
  /\ pipeUser' = <<>>
  /\ pipeRouteRan' = FALSE
  /\ pipeRequests' = pipeRequests + 1
  /\ UNCHANGED <<isLocal, keyVars, jwtVars, tfaVars, csrfVars, wafVars, limVars,
                 scanVars, loginVars, connVars>>

\* what a stage's run adds to the account of the request
StageRun(stage, verdict) ==
  <<[stage |-> stage, sent |-> verdict.sent, next |-> verdict.next]>>

\* requireTwoFactor's run, with the session the request had
TwoFactorRun(session, verdict) ==
  <<[stage |-> "requireTwoFactor", sent |-> verdict.sent, next |-> verdict.next,
     session |-> session]>>

\* authJWT's run: verifying the token, then, for a verified token on a route with
\* a roles option, comparing the role
AuthRun(token, roles, verdict) ==
  IF token # <<>> /\ verifyToken(token[1]).ok /\ roles # {}
  THEN StageRun("authJWT", StageNext) \o StageRun("authJWT.roles", verdict)
  ELSE StageRun("authJWT", verdict)

\* the bookkeeping of a stage that answered `verdict`: the next stage is due, the
\* route's handler runs after the last stage, or the response is sent
StageDone(stage, ran, verdict, user) ==
  /\ pipeRan' = pipeRan \o ran
  /\ pipeUser' = user
  /\ pipeResponse' = IF verdict.sent
                     THEN <<[stage |-> stage, status |-> verdict.status,
                             fields |-> verdict.fields, code |-> verdict.code]>>
                     ELSE pipeResponse
  /\ pipeStage' = IF verdict.next /\ pipeStage < Len(ChainFor(pipeReq))
                  THEN pipeStage + 1 ELSE 0
  /\ pipeRouteRan' = (verdict.next /\ pipeStage = Len(ChainFor(pipeReq)))
  /\ UNCHANGED <<pipeReq, pipeRequests>>

WafUnchanged ==
  UNCHANGED <<allowedCountries, wafEnabled, activeRules, requestCounts, blockedIPs, blockList, wafNow,
              wafBursts, wafPacing, wafResponse>>

LimUnchanged ==
  UNCHANGED <<redisLink, isRedisAvailable, limiterStore, memoryHits, redisHits,
              limBursts, limResponse>>

\* the stage that is due runs
PipeStep ==
  /\ pipeStage > 0
  /\ pipeStage <= Len(ChainFor(pipeReq))
  /\ LET stage == ChainFor(pipeReq)[pipeStage] IN
     CASE stage = "ipBlocker" ->
            /\ LET verdict == blockListCheck(blockList, pipeReq.ip) IN
               StageDone(stage, StageRun(stage, verdict), verdict, pipeUser)
            /\ WafUnchanged /\ LimUnchanged
       [] stage = "validateHeaders" ->
            /\ \E origin \in HeaderInputs, referer \in HeaderInputs :
                 LET verdict == validateHeaders(origin, referer) IN
                 StageDone(stage, StageRun(stage, verdict), verdict, pipeUser)
            /\ WafUnchanged /\ LimUnchanged
       [] stage \in {"apiLimiter", "productionRateLimiter", "authLimiter"} ->
            LET handled == limiterHandle(LimState, stage, pipeReq.ip, pipeUser)
                verdict == LimiterStage(handled.verdict)
            IN
            /\ StageDone(stage, StageRun(stage, verdict), verdict, pipeUser)
            /\ memoryHits' = handled.s.memory
            /\ redisHits' = handled.s.redis
            /\ UNCHANGED <<redisLink, isRedisAvailable, limiterStore, limBursts,
                           limResponse>>
            /\ WafUnchanged
       [] stage = "wafMiddleware" ->
            /\ \E req \in {r \in RequestInputs : r.method = pipeReq.method} :
                 LET handled == wafMiddleware(WafState, pipeReq.ip, req, wafNow)
                     verdict == WafStage(handled.response)
                 IN
                 /\ StageDone(stage, StageRun(stage, verdict), verdict, pipeUser)
                 /\ requestCounts' = handled.w.counts
                 /\ blockedIPs' = handled.w.banned
                 /\ blockList' = handled.w.list
                 /\ wafResponse' = handled.response
            /\ UNCHANGED <<allowedCountries, wafEnabled, activeRules, wafNow, wafBursts, wafPacing>>
            /\ LimUnchanged
       [] stage = "securityHandshake" ->
            /\ \E signatureValid \in BOOLEAN :
                 LET verdict == securityHandshake(signatureValid) IN
                 StageDone(stage, StageRun(stage, verdict), verdict, pipeUser)
            /\ WafUnchanged /\ LimUnchanged
       [] stage = "verifyCsrfToken" ->
            /\ \E cookieToken \in {<<>>, <<"a1b2">>},
                  headerToken \in {<<>>, <<"a1b2">>, <<"c3d4">>} :
                 LET verdict == CsrfStage(verifyCsrfToken(pipeReq.method, cookieToken,
                                                           headerToken))
                 IN StageDone(stage, StageRun(stage, verdict), verdict, pipeUser)
            /\ WafUnchanged /\ LimUnchanged
       [] stage = "authJWT" ->
            /\ \E token \in PipeTokens :
                 LET roles == RolesOption(pipeReq.path)
                     response == authJWT(token, TRUE, roles)
                     verdict == AuthStage(response)
                 IN StageDone(stage, AuthRun(token, roles, verdict), verdict,
                              response.user)
            /\ WafUnchanged /\ LimUnchanged
       [] stage = "requireParentRole" ->
            /\ LET verdict == requireParentRole(pipeUser) IN
               StageDone(stage, StageRun(stage, verdict), verdict, pipeUser)
            /\ WafUnchanged /\ LimUnchanged
       [] stage = "requireTwoFactor" ->
            /\ \E session \in SessionInputs :
                 LET verdict == requireTwoFactor(pipeUser, session2FAVerified(session))
                 IN StageDone(stage, TwoFactorRun(session, verdict), verdict, pipeUser)
            /\ WafUnchanged /\ LimUnchanged
  /\ UNCHANGED <<isLocal, keyVars, jwtVars, tfaVars, csrfVars, scanVars, loginVars, connVars>>

PipeNext ==
  \/ PipeArrive
  \/ PipeStep

SpecPipeline == PipeInit /\ [][PipeNext]_vars

-----------------------------------------------------------------------------
\* Claims about the middleware chain (SpecPipeline)

C14_RejectionEndsPipeline ==
  /\ [](/\ \A i \in 1..Len(pipeRan) :
             /\ pipeRan[i].sent # pipeRan[i].next
             /\ pipeRan[i].sent => i = Len(pipeRan)
        /\ pipeRouteRan
             => /\ pipeResponse = <<>>
                /\ \A i \in 1..Len(pipeRan) : pipeRan[i].next
        /\ pipeResponse # <<>>
             => /\ ~pipeRouteRan
                /\ pipeRan # <<>>
                /\ pipeRan[Len(pipeRan)].sent)
  /\ [][pipeResponse # <<>>
          => \/ pipeRan' = pipeRan /\ pipeRouteRan' = pipeRouteRan
             \/ pipeRan' = <<>> /\ pipeRequests' > pipeRequests]_vars

\* an admin whose session has not passed the second factor was turned away by
\* requireTwoFactor, the last guard of the route
C14_Witness ==
  /\ pipeResponse # <<>>
  /\ pipeResponse[1].stage = "requireTwoFactor"
  /\ pipeResponse[1].status = 403
  /\ ~pipeRouteRan
  /\ pipeStage = 0
  /\ pipeRan[Len(pipeRan)].stage = "requireTwoFactor"

C15_StructuredRejections ==
  pipeResponse # <<>>
    => /\ {"success", "message", "code"} \subseteq pipeResponse[1].fields
       /\ pipeResponse[1].status \in {401, 403, 429}

-----------------------------------------------------------------------------
(* The WAF's signatures (WAF.attackPatterns, src/unnamed/part_008 43-98) and *)
(* the scan of single requests.  A text is the sequence of its characters. *)
(* A signature is a sequence of elements; an element is a set of            *)
(* alternative literals and the gap the regex allows between the previous   *)
(* element and the literal.  All signatures carry the i flag: the text is   *)
(* folded to lower case and the literals are written in lower case.  The    *)
(* grave accent is written "backtick".                                      *)

\* gaps: nothing in between; .* (any characters but a line feed); \s* ; [^c]*
Adjacent == [only |-> TRUE, chars |-> {}]
AnyChars == [only |-> FALSE, chars |-> {"\n"}]
Spaces == [only |-> TRUE, chars |-> {" ", "\t"}]
Except(c) == [only |-> FALSE, chars |-> {c}]

El(gap, alts) == [gap |-> gap, alts |-> alts]

UpperCase ==
  <<"A", "B", "C", "D", "E", "F", "G", "H", "I", "J", "K", "L", "M", "N", "O", "P",
    "Q", "R", "S", "T", "U", "V", "W", "X", "Y", "Z">>

LowerCase ==
  <<"a", "b", "c", "d", "e", "f", "g", "h", "i", "j", "k", "l", "m", "n", "o", "p",
    "q", "r", "s", "t", "u", "v", "w", "x", "y", "z">>

FoldChar(c) ==
  IF \E k \in 1..26 : UpperCase[k] = c
  THEN LowerCase[CHOOSE k \in 1..26 : UpperCase[k] = c]
  ELSE c

FoldCase(text) == [k \in 1..Len(text) |-> FoldChar(text[k])]

\* the literal stands in the text at position at
LitAt(text, lit, at) ==
  /\ at + Len(lit) - 1 <= Len(text)
  /\ \A k \in 1..Len(lit) : text[at + k - 1] = lit[k]

\* the characters from..(to - 1) of the text are characters the gap allows
GapAllows(text, gap, from, to) ==
  \A k \in from..(to - 1) :
    IF gap.only THEN text[k] \in gap.chars ELSE text[k] \notin gap.chars

\* the elements k.. of the signature match the text from position from on
RECURSIVE MatchFrom(_, _, _, _)
MatchFrom(text, pattern, k, from) ==
  IF k > Len(pattern) THEN TRUE
  ELSE \E at \in from..(Len(text) + 1) :
         /\ GapAllows(text, pattern[k].gap, from, at)
         /\ \E lit \in pattern[k].alts :
              /\ LitAt(text, lit, at)
              /\ MatchFrom(text, pattern, k + 1, at + Len(lit))

\* pattern.test(payloadStr)
PatternTest(pattern, payloadStr) ==
  \E start \in 1..(Len(payloadStr) + 1) :
    MatchFrom(FoldCase(payloadStr), pattern, 1, start)

\* attackPatterns.sqlInjection
SqlInjectionPatterns ==
  {
    \* /'.*--/i
    <<El(Adjacent, {<<"'">>}), El(AnyChars, {<<"-", "-">>})>>,
    \* /union.*select/i
    <<El(Adjacent, {<<"u", "n", "i", "o", "n">>}), El(AnyChars, {<<"s", "e", "l",
      "e", "c", "t">>})>>,
    \* /exec.*sp_/i
    <<El(Adjacent, {<<"e", "x", "e", "c">>}), El(AnyChars, {<<"s", "p", "_">>})>>,
    \* /insert.*into.*values/i
    <<El(Adjacent, {<<"i", "n", "s", "e", "r", "t">>}), El(AnyChars, {<<"i", "n",
      "t", "o">>}), El(AnyChars, {<<"v", "a", "l", "u", "e", "s">>})>>,
    \* /select.*from/i
    <<El(Adjacent, {<<"s", "e", "l", "e", "c", "t">>}), El(AnyChars, {<<"f", "r",
      "o", "m">>})>>,
    \* /delete.*from/i
    <<El(Adjacent, {<<"d", "e", "l", "e", "t", "e">>}), El(AnyChars, {<<"f", "r",
      "o", "m">>})>>,
    \* /drop.*table/i
    <<El(Adjacent, {<<"d", "r", "o", "p">>}), El(AnyChars, {<<"t", "a", "b", "l",
      "e">>})>>,
    \* /waitfor.*delay/i
    <<El(Adjacent, {<<"w", "a", "i", "t", "f", "o", "r">>}), El(AnyChars, {<<"d",
      "e", "l", "a", "y">>})>>,
    \* /;.*;/i
    <<El(Adjacent, {<<";">>}), El(AnyChars, {<<";">>})>>,
    \* /'.*OR.*'--/i
    <<El(Adjacent, {<<"'">>}), El(AnyChars, {<<"o", "r">>}), El(AnyChars, {<<"'",
      "-", "-">>})>>,
    \* /'.*OR.*1=1--/i
    <<El(Adjacent, {<<"'">>}), El(AnyChars, {<<"o", "r">>}), El(AnyChars, {<<"1",
      "=", "1", "-", "-">>})>>
  }

\* attackPatterns.xss
XssPatterns ==
  {
    \* /<script[^>]*>/i
    <<El(Adjacent, {<<"<", "s", "c", "r", "i", "p", "t">>}), El(Except(">"),
      {<<">">>})>>,
    \* /javascript:[^"]*/i
    <<El(Adjacent, {<<"j", "a", "v", "a", "s", "c", "r", "i", "p", "t", ":">>}),
      El(Except("\""), {<<>>})>>,
    \* /onerror=[^"]*/i
    <<El(Adjacent, {<<"o", "n", "e", "r", "r", "o", "r", "=">>}), El(Except("\""),
      {<<>>})>>,
    \* /onload=[^"]*/i
    <<El(Adjacent, {<<"o", "n", "l", "o", "a", "d", "=">>}), El(Except("\""),
      {<<>>})>>,
    \* /onclick=[^"]*/i
    <<El(Adjacent, {<<"o", "n", "c", "l", "i", "c", "k", "=">>}), El(Except("\""),
      {<<>>})>>,
    \* /eval\([^)]*\)/i
    <<El(Adjacent, {<<"e", "v", "a", "l", "(">>}), El(Except(")"), {<<")">>})>>,
    \* /alert\([^)]*\)/i
    <<El(Adjacent, {<<"a", "l", "e", "r", "t", "(">>}), El(Except(")"), {<<")">>})>>,
    \* /document\.cookie/i
    <<El(Adjacent, {<<"d", "o", "c", "u", "m", "e", "n", "t", ".", "c", "o", "o",
      "k", "i", "e">>})>>,
    \* /document\.location/i
    <<El(Adjacent, {<<"d", "o", "c", "u", "m", "e", "n", "t", ".", "l", "o", "c",
      "a", "t", "i", "o", "n">>})>>,
    \* /document\.write/i
    <<El(Adjacent, {<<"d", "o", "c", "u", "m", "e", "n", "t", ".", "w", "r", "i",
      "t", "e">>})>>
  }

\* attackPatterns.commandInjection
CommandInjectionPatterns ==
  {
    \* /\|\s*(?:cmd|command|powershell|bash|sh|ksh|csh)/i
    <<El(Adjacent, {<<"|">>}), El(Spaces, {<<"c", "m", "d">>, <<"c", "o", "m", "m",
      "a", "n", "d">>, <<"p", "o", "w", "e", "r", "s", "h", "e", "l", "l">>, <<"b",
      "a", "s", "h">>, <<"s", "h">>, <<"k", "s", "h">>, <<"c", "s", "h">>})>>,
    \* /;\s*(?:cmd|command|powershell|bash|sh|ksh|csh)/i
    <<El(Adjacent, {<<";">>}), El(Spaces, {<<"c", "m", "d">>, <<"c", "o", "m", "m",
      "a", "n", "d">>, <<"p", "o", "w", "e", "r", "s", "h", "e", "l", "l">>, <<"b",
      "a", "s", "h">>, <<"s", "h">>, <<"k", "s", "h">>, <<"c", "s", "h">>})>>,
    \* /`.*`/i
    <<El(Adjacent, {<<"backtick">>}), El(AnyChars, {<<"backtick">>})>>,
    \* /system\(.*\)/i
    <<El(Adjacent, {<<"s", "y", "s", "t", "e", "m", "(">>}), El(AnyChars,
      {<<")">>})>>,
    \* /exec\(.*\)/i
    <<El(Adjacent, {<<"e", "x", "e", "c", "(">>}), El(AnyChars, {<<")">>})>>,
    \* /\$\([^)]*\)/i
    <<El(Adjacent, {<<"$", "(">>}), El(Except(")"), {<<")">>})>>,
    \* /\|\s*(?:ls|dir|cat|ps|netstat)/i
    <<El(Adjacent, {<<"|">>}), El(Spaces, {<<"l", "s">>, <<"d", "i", "r">>, <<"c",
      "a", "t">>, <<"p", "s">>, <<"n", "e", "t", "s", "t", "a", "t">>})>>
  }

\* attackPatterns.pathTraversal
PathTraversalPatterns ==
  {
    \* /\.\.\/\.\.\/\.\.\//i
    <<El(Adjacent, {<<".", ".", "/", ".", ".", "/", ".", ".", "/">>})>>,
    \* /\.\.\\\.\.\\\.\.\/\//i
    <<El(Adjacent, {<<".", ".", "\\", ".", ".", "\\", ".", ".", "/", "/">>})>>,
    \* /etc\/passwd/i
    <<El(Adjacent, {<<"e", "t", "c", "/", "p", "a", "s", "s", "w", "d">>})>>,
    \* /etc\/shadow/i
    <<El(Adjacent, {<<"e", "t", "c", "/", "s", "h", "a", "d", "o", "w">>})>>,
    \* /\/proc\/self\/environ/i
    <<El(Adjacent, {<<"/", "p", "r", "o", "c", "/", "s", "e", "l", "f", "/", "e",
      "n", "v", "i", "r", "o", "n">>})>>,
    \* /\/var\/log\//i
    <<El(Adjacent, {<<"/", "v", "a", "r", "/", "l", "o", "g", "/">>})>>,
    \* /\/windows\/system32\//i
    <<El(Adjacent, {<<"/", "w", "i", "n", "d", "o", "w", "s", "/", "s", "y", "s",
      "t", "e", "m", "3", "2", "/">>})>>,
    \* /c:\\windows\\system32/i
    <<El(Adjacent, {<<"c", ":", "\\", "w", "i", "n", "d", "o", "w", "s", "\\", "s",
      "y", "s", "t", "e", "m", "3", "2">>})>>
  }

\* attackPatterns.filenames
FilenamePatterns ==
  {
    \* /\.htaccess/i
    <<El(Adjacent, {<<".", "h", "t", "a", "c", "c", "e", "s", "s">>})>>,
    \* /\.htpasswd/i
    <<El(Adjacent, {<<".", "h", "t", "p", "a", "s", "s", "w", "d">>})>>,
    \* /config\.php/i
    <<El(Adjacent, {<<"c", "o", "n", "f", "i", "g", ".", "p", "h", "p">>})>>,
    \* /wp-config\.php/i
    <<El(Adjacent, {<<"w", "p", "-", "c", "o", "n", "f", "i", "g", ".", "p", "h",
      "p">>})>>,
    \* /config\.ini/i
    <<El(Adjacent, {<<"c", "o", "n", "f", "i", "g", ".", "i", "n", "i">>})>>,
    \* /\.env/i
    <<El(Adjacent, {<<".", "e", "n", "v">>})>>,
    \* /\.git\//i
    <<El(Adjacent, {<<".", "g", "i", "t", "/">>})>>,
    \* /\.svn\//i
    <<El(Adjacent, {<<".", "s", "v", "n", "/">>})>>
  }

attackPatterns(category) ==
  CASE category = "sqlInjection" -> SqlInjectionPatterns
    [] category = "xss" -> XssPatterns
    [] category = "commandInjection" -> CommandInjectionPatterns
    [] category = "pathTraversal" -> PathTraversalPatterns
    [] category = "filenames" -> FilenamePatterns
    [] OTHER -> {}

\* the pattern lists with a regex that matches the text
MatchedLists(payloadStr) ==
  {category \in AttackCategories :
     \E pattern \in attackPatterns(category) : PatternTest(pattern, payloadStr)}

\* JSON.stringify of a string: quotes and backslashes are escaped
RECURSIVE JsonEscape(_)
JsonEscape(text) ==
  IF text = <<>> THEN <<>>
  ELSE (IF Head(text) \in {"\"", "\\"} THEN <<"\\", Head(text)>> ELSE <<Head(text)>>)
         \o JsonEscape(Tail(text))

\* JSON.stringify({ username: value })
JsonStringify(value) ==
  <<"{", "\"", "u", "s", "e", "r", "n", "a", "m", "e", "\"", ":", "\"">>
    \o JsonEscape(value) \o <<"\"", "}">>

\* the body texts of single requests: the two probes, a clean value, and two attacks
\* the signatures know
SqlProbe == <<"'", " ", "O", "R", " ", "'", "1", "'", "=", "'", "1">>

XssProbe ==
  <<"<", "s", "c", "r", "i", "p", "t", ">", "a", "l", "e", "r",
    "t", "(", "1", ")", "<", "/", "s", "c", "r", "i", "p", "t", ">">>

CleanValue == <<"b", "u", "d", "i">>

CommentProbe == <<"a", "d", "m", "i", "n", "'", "-", "-">>

UnionProbe ==
  <<"1", " ", "U", "N", "I", "O", "N", " ", "S", "E", "L",
    "E", "C", "T", " ", "<", "s", "c", "r", "i", "p", "t", ">">>

LoginUrl ==
  <<"/", "a", "p", "i", "/", "a", "u",
    "t", "h", "/", "l", "o", "g", "i", "n">>

\* a request whose url and body are given as texts
TextRequest(urlText, value) ==
  [method |-> "POST", url |-> MatchedLists(urlText),
   body |-> MatchedLists(JsonStringify(value))]

BodyTexts == {SqlProbe, XssProbe, CleanValue, CommentProbe, UnionProbe}

\* the single requests: POSTs to the login route with one of the body texts, and
\* POSTs told by the pattern lists that match their url and their body
ScanInputs ==
  {[text |-> value, req |-> TextRequest(LoginUrl, value)] : value \in BodyTexts}
    \cup {[text |-> <<>>, req |-> [method |-> "POST", url |-> u, body |-> b]] :
            u \in {{}, {"pathTraversal"}},
            b \in SUBSET {"sqlInjection", "xss", "commandInjection", "pathTraversal"}}

\* no more than this many single requests are scanned
MaxScans == 2

ScanInit ==
  /\ isLocal \in BOOLEAN
  /\ ConnIdle
  /\ KeysIdle /\ JwtIdle /\ TfaIdle /\ CsrfIdle /\ LimIdle /\ PipeIdle /\ LoginIdle
  /\ WafIdle
  /\ wafScanned = <<>>

\* getWAFInstance().setRuleEnabled(rule, enable)
ScanSetRule ==
  /\ \E rule \in {"sqlInjection", "xss", "commandInjection", "path_traversal",
                  "pathTraversal"}, enable \in BOOLEAN :
       activeRules' = setRuleEnabled(activeRules, rule, enable)
  /\ wafResponse' = NoWafResponse
  /\ wafScanned' = <<>>
  /\ UNCHANGED <<allowedCountries, wafEnabled, requestCounts, blockedIPs, blockList, wafNow, wafBursts,
                 wafPacing>>
  /\ UNCHANGED <<isLocal, keyVars, jwtVars, tfaVars, csrfVars, limVars, pipeVars, loginVars, connVars>>

\* one request goes through ipBlocker and wafMiddleware
ScanRequest ==
  /\ wafBursts < MaxScans
  /\ \E clientIp \in Addresses, input \in ScanInputs :
       LET handled == ipBlocker(WafState, clientIp, input.req, wafNow) IN
       /\ requestCounts' = handled.w.counts
       /\ blockedIPs' = handled.w.banned
       /\ blockList' = handled.w.list
       /\ wafResponse' = handled.response
       /\ wafScanned' = <<input>>
  /\ wafBursts' = wafBursts + 1
  /\ UNCHANGED <<allowedCountries, wafEnabled, activeRules, wafNow, wafPacing>>
  /\ UNCHANGED <<isLocal, keyVars, jwtVars, tfaVars, csrfVars, limVars, pipeVars, loginVars, connVars>>

ScanNext ==
  \/ ScanSetRule
  \/ ScanRequest

SpecWafScan == ScanInit /\ [][ScanNext]_vars

-----------------------------------------------------------------------------
\* Claims about the scan of a request's body (SpecWafScan)

\* C18 as stated: for a request that is not a GET, from an address that is not
\* banned and not refused for its country, the enabled categories are looked for in
\* the body in the order SQL injection, XSS, command injection, path traversal; the
\* request is refused under the first enabled category the body matches and the
\* address's bad-request count goes up by one; a body that matches no enabled
\* category is refused under none of the four and the count stays.
C18_FirstMatchingCategory ==
  [][(/\ wafScanned' # <<>>
      /\ wafEnabled
      /\ wafResponse'.handled
      /\ ~wafResponse'.wasBanned
      /\ wafResponse'.code # "GEO_BLOCKING")
     => LET req == wafScanned'[1].req
            ip == wafResponse'.ip
            order ==
              <<[rule |-> "sqlInjection", list |-> "sqlInjection",
                 code |-> "SQL_INJECTION"],
                [rule |-> "xss", list |-> "xss", code |-> "XSS"],
                [rule |-> "commandInjection", list |-> "commandInjection",
                 code |-> "COMMAND_INJECTION"],
                [rule |-> "path_traversal", list |-> "pathTraversal",
                 code |-> "PATH_TRAVERSAL"]>>
            hits == {k \in 1..4 :
                       activeRules[order[k].rule] /\ order[k].list \in req.body}
            bad(counts) == IF ip \in DOMAIN counts THEN counts[ip].badRequests ELSE 0
        IN IF hits # {}
           THEN LET first == CHOOSE k \in hits : \A h \in hits : k <= h IN
                /\ ~wafResponse'.next
                /\ wafResponse'.code = order[first].code
                /\ bad(requestCounts') = bad(requestCounts) + 1
           ELSE /\ wafResponse'.code \notin {"SQL_INJECTION", "XSS", "COMMAND_INJECTION",
                                              "PATH_TRAVERSAL"}
                /\ bad(requestCounts') = bad(requestCounts)]_vars

\* C19 as stated: with the WAF enabled and the SQL injection and XSS rules on, a
\* POST from an address that is not banned and not refused for its country is
\* refused as SQL_INJECTION when its body holds ' OR '1'='1, refused as XSS when
\* its body holds <script>alert(1)</script>, and passed on when neither its url nor
\* its body matches a signature.
C19_ProbesBlocked ==
  (/\ wafScanned # <<>>
   /\ wafEnabled
   /\ activeRules.sqlInjection
   /\ activeRules.xss
   /\ wafResponse.handled
   /\ ~wafResponse.wasBanned
   /\ wafResponse.code # "GEO_BLOCKING")
  => /\ wafScanned[1].text = SqlProbe
        => (~wafResponse.next /\ wafResponse.code = "SQL_INJECTION")
     /\ wafScanned[1].text = XssProbe
        => (~wafResponse.next /\ wafResponse.code = "XSS")
     /\ (wafScanned[1].req.url = {} /\ wafScanned[1].req.body = {})
        => wafResponse.next

-----------------------------------------------------------------------------
(* The rule toggles and the request methods of the WAF: single requests and *)
(* bursts of every method, with the rules switched on and off through       *)
(* setRuleEnabled (the call wafMiddleware makes for each entry of           *)
(* options.rules).                                                          *)

\* the names of the toggles, and the name index.js uses for path traversal
RuleNames ==
  {"sqlInjection", "xss", "commandInjection", "path_traversal", "ddos",
   "geoblocking", "pathTraversal"}

\* the category a refusal carries for each toggle
RuleCategory(rule) ==
  CASE rule = "sqlInjection" -> "SQL_INJECTION"
    [] rule = "xss" -> "XSS"
    [] rule = "commandInjection" -> "COMMAND_INJECTION"
    [] rule = "path_traversal" -> "PATH_TRAVERSAL"
    [] rule = "ddos" -> "DDOS_PROTECTION"
    [] rule = "geoblocking" -> "GEO_BLOCKING"
    [] OTHER -> ""

ReadOnlyMethods == {"GET", "HEAD", "OPTIONS"}

\* requests of every kind of method, told by the pattern lists their url and their
\* body match
MethodInputs ==
  {[method |-> method, url |-> u, body |-> b] :
     method \in ReadOnlyMethods \cup {"POST", "DELETE"},
     u \in {{}, {"sqlInjection"}, {"pathTraversal"}},
     b \in {{}, {"sqlInjection"}, {"xss"}, {"commandInjection"}}}

\* no more than this many bursts are sent while the rules are being switched
MaxRuleBursts == 1

RulesInit ==
  /\ isLocal \in BOOLEAN
  /\ ConnIdle
  /\ KeysIdle /\ JwtIdle /\ TfaIdle /\ CsrfIdle /\ LimIdle /\ PipeIdle /\ LoginIdle
  /\ wafEnabled = ~isLocal
  /\ activeRules = StartupRules
  /\ allowedCountries = DefaultCountries
  /\ requestCounts = <<>>
  /\ blockedIPs = {}
  /\ blockList = {}
  /\ wafNow = 0
  /\ wafBursts = 0
  /\ wafPacing = <<>>
  /\ wafResponse = NoWafResponse
  /\ wafScanned = <<>>

\* wafInstance.setRuleEnabled(rule, enable)
RulesSetRule ==
  /\ \E rule \in RuleNames, enable \in BOOLEAN :
       activeRules' = setRuleEnabled(activeRules, rule, enable)
  /\ wafResponse' = NoWafResponse
  /\ wafScanned' = <<>>
  /\ UNCHANGED <<allowedCountries, wafEnabled, requestCounts, blockedIPs, blockList, wafNow, wafBursts,
                 wafPacing>>
  /\ UNCHANGED <<isLocal, keyVars, jwtVars, tfaVars, csrfVars, limVars, pipeVars,
                 loginVars, connVars>>

\* an address sends one request, or eleven equal ones within the same second
RulesRequest ==
  /\ wafBursts < MaxRuleBursts
  /\ \E clientIp \in Addresses, req \in MethodInputs,
        n \in {1, requestsPerSecond + 1} :
       LET handled == HandleBurst(WafState, clientIp, req, wafNow, n) IN
       /\ requestCounts' = handled.w.counts
       /\ blockedIPs' = handled.w.banned
       /\ blockList' = handled.w.list
       /\ wafResponse' = handled.response
       /\ wafScanned' = <<[text |-> <<>>, req |-> req, burst |-> n]>>
  /\ wafBursts' = wafBursts + 1
  /\ UNCHANGED <<allowedCountries, wafEnabled, activeRules, wafNow, wafPacing>>
  /\ UNCHANGED <<isLocal, keyVars, jwtVars, tfaVars, csrfVars, limVars, pipeVars,
                 loginVars, connVars>>

RulesNext == RulesSetRule \/ RulesRequest

SpecWafRules == RulesInit /\ [][RulesNext]_vars

\* C28 as stated: a request of any method is never refused under the category of
\* a toggle that is switched off.
C28_DisabledRuleNeverBlocks ==
  wafResponse.handled =>
    \A rule \in DOMAIN activeRules :
      ~activeRules[rule] => wafResponse.code # RuleCategory(rule)

\* the part of C28 that holds: requests that are not GETs are never refused under
\* the category of a toggle that is off, and no request is refused for its rate
\* or its country while that toggle is off
C28_DisabledRuleNeverBlocksBody ==
  (wafResponse.handled /\ wafScanned # <<>>) =>
    \A rule \in DOMAIN activeRules :
      (/\ ~activeRules[rule]
       /\ wafScanned[1].req.method # "GET" \/ rule \in {"ddos", "geoblocking"})
        => wafResponse.code # RuleCategory(rule)

\* C29 as stated: what the WAF does with a GET, HEAD or OPTIONS request (its
\* answer, the counters, the ban set) is what it does with the same request
\* without its body.
C29_ReadOnlyBodyIgnored ==
  [][(wafScanned' # <<>> /\ wafScanned'[1].req.method \in {"GET", "HEAD", "OPTIONS"})
       => LET req == wafScanned'[1].req
              bare == [req EXCEPT !.body = {}]
              handled == HandleBurst(WafState, wafResponse'.ip, bare, wafNow,
                                     wafScanned'[1].burst)
          IN  /\ wafResponse' = handled.response
              /\ requestCounts' = handled.w.counts
              /\ blockedIPs' = handled.w.banned]_vars

\* the part of C29 that holds: the body of a GET changes nothing
C29_GetBodyIgnored ==
  [][(wafScanned' # <<>> /\ wafScanned'[1].req.method = "GET")
       => LET req == wafScanned'[1].req
              bare == [req EXCEPT !.body = {}]
              handled == HandleBurst(WafState, wafResponse'.ip, bare, wafNow,
                                     wafScanned'[1].burst)
          IN  /\ wafResponse' = handled.response
              /\ requestCounts' = handled.w.counts
              /\ blockedIPs' = handled.w.banned]_vars

-----------------------------------------------------------------------------
(* POST /api/auth/login (routes/auth.routes.js) and the authentication      *)
(* logger (utils/logger.js).  The route counts the login requests of each   *)
(* address in loginAttempts and hands the count to securityLogger.logAuth;  *)
(* bcrypt.compare is modelled by its three outcomes.                        *)

MaxAttempts == 7

LoginUsers == {"admin", "child1"}

LoginNames == LoginUsers \cup {"nobody"}

CompareOutcomes == {"match", "mismatch", "error"}

\* loginAttempts[clientIp] || 0
AttemptsOf(attempts, clientIp) ==
  IF clientIp \in DOMAIN attempts THEN attempts[clientIp] ELSE 0

\* securityLogger.logIntrusion(message, data): the event, and the alert to the
\* administrators for severity high
logIntrusion(severity) ==
  [events |-> <<"INTRUSION_ATTEMPT">>, severity |-> severity,
   alert |-> (severity = "high")]

\* securityLogger.logAuth(success, message, data); attempts is data.attempts,
\* 0 when the caller passed none
logAuth(success, attempts) ==
  LET own == IF success THEN "AUTH_SUCCESS" ELSE "AUTH_FAILURE"
  IN  IF ~success /\ attempts # 0 /\ attempts > 3
      THEN LET i == logIntrusion(IF attempts > 5 THEN "high" ELSE "medium")
           IN  [events |-> <<own>> \o i.events, severity |-> i.severity,
                alert |-> i.alert]
      ELSE [events |-> <<own>>, severity |-> "", alert |-> FALSE]

\* the handler of POST /login for a request that passed validation
loginRoute(attempts, clientIp, username, compared) ==
  LET count == AttemptsOf(attempts, clientIp) + 1
      counted == MapSet(attempts, clientIp, count)
      Answer(status, logged, n) ==
        [handled |-> TRUE, ip |-> clientIp, status |-> status, attempts |-> n,
         events |-> logged.events, severity |-> logged.severity,
         alert |-> logged.alert]
  IN  IF username \notin LoginUsers
      THEN [attempts |-> counted, response |-> Answer(401, logAuth(FALSE, count), count)]
      ELSE IF compared = "error"
      THEN [attempts |-> counted, response |-> Answer(500, logAuth(FALSE, 0), count)]
      ELSE IF compared = "mismatch"
      THEN [attempts |-> counted, response |-> Answer(401, logAuth(FALSE, count), count)]
      ELSE [attempts |-> MapSet(attempts, clientIp, 0),
            response |-> Answer(200, logAuth(TRUE, 0), 0)]

LoginInit ==
  /\ isLocal \in BOOLEAN
  /\ ConnIdle
  /\ KeysIdle /\ JwtIdle /\ TfaIdle /\ CsrfIdle /\ WafIdle
  /\ LimIdle /\ PipeIdle /\ ScanIdle
  /\ loginAttempts = <<>>
  /\ loginResponse = NoLoginResponse

\* a login request of a known user
LoginKnownUser ==
  /\ \E clientIp \in Addresses, username \in LoginUsers, compared \in CompareOutcomes :
       /\ AttemptsOf(loginAttempts, clientIp) < MaxAttempts
       /\ LET r == loginRoute(loginAttempts, clientIp, username, compared)
          IN  /\ loginAttempts' = r.attempts
              /\ loginResponse' = r.response
  /\ UNCHANGED <<isLocal, keyVars, jwtVars, tfaVars, csrfVars, wafVars, limVars,
                 pipeVars, scanVars, connVars>>

\* a login request naming a user that does not exist
LoginUnknownUser ==
  /\ \E clientIp \in Addresses :
       /\ AttemptsOf(loginAttempts, clientIp) < MaxAttempts
       /\ LET r == loginRoute(loginAttempts, clientIp, "nobody", "mismatch")
          IN  /\ loginAttempts' = r.attempts
              /\ loginResponse' = r.response
  /\ UNCHANGED <<isLocal, keyVars, jwtVars, tfaVars, csrfVars, wafVars, limVars,
                 pipeVars, scanVars, connVars>>

LoginNext == LoginKnownUser \/ LoginUnknownUser

SpecLogin == LoginInit /\ [][LoginNext]_vars

\* C21: a failed login that takes its address past the threshold of repeated
\* failures (more than 5 attempts, the count at which the audit event is tagged
\* high) leaves the address in the ban set that ipBlocker enforces.
C21_FailedLoginsBan ==
  (loginResponse.handled /\ loginResponse.status = 401 /\ loginResponse.attempts > 5)
    => (loginResponse.ip \in blockList \/ loginResponse.ip \in blockedIPs)

-----------------------------------------------------------------------------
(* KidsConnectionManager: src/src/security/crypto.js lines 1353-1870.  The  *)
(* manager holds one socket (this.socket) made by io() with reconnection    *)
(* off, a reconnect timeout and a ping interval.  The handlers of a         *)
(* socket's events are async functions: each runs up to its                 *)
(* await this.saveDevices() when the event is emitted and the rest later,   *)
(* as a step of its own.  socket.disconnect() emits 'disconnect' at once    *)
(* when the socket is connected.                                            *)

\* ids handed out to sockets and timers in one run
MaxIds == 5

\* the one child device of the list: addDevice insists on an address
KidsDevice == [id |-> "kid1", address |-> <<"192.168.1.20">>]

\* clearTimeout(timer) / clearInterval(timer); <<>> is null, a handle that is no
\* longer pending is ignored
clearTimer(m, timer) ==
  [m EXCEPT !.timers = {t \in @ : <<t.handle>> # timer}]

\* this.socket && this.socket.connected
SocketConnected(m) ==
  m.socket # <<>> /\ m.sockets[m.socket[1]] = "connected"

\* the event is emitted on socket s with the reason socket.io gives: its handler
\* runs up to the await
Emitted(m, s, event, reason) ==
  LET ran == CASE event = "connect" -> [m EXCEPT !.isConnected = TRUE]
               [] event = "disconnect" -> [m EXCEPT !.isConnected = FALSE]
               [] OTHER -> m
  IN  [ran EXCEPT !.awaiting = @ \cup {[event |-> event, socket |-> s, reason |-> reason]}]

scheduleReconnect(m, address) ==
  LET cleared == clearTimer(m, m.reconnectTimer)
  IN  IF address = <<>> THEN cleared
      ELSE [cleared EXCEPT
              !.timers = @ \cup {[handle |-> m.nextId, kind |-> "reconnect"]},
              !.reconnectTimer = <<m.nextId>>,
              !.nextId = @ + 1]

startPingInterval(m) ==
  LET cleared == clearTimer(m, m.pingTimer)
  IN  [cleared EXCEPT
         !.timers = @ \cup {[handle |-> m.nextId, kind |-> "ping"]},
         !.pingTimer = <<m.nextId>>,
         !.nextId = @ + 1]

\* disconnect()
disconnect(m) ==
  IF m.socket = <<>> THEN m
  ELSE LET s == m.socket[1]
           cleared == clearTimer(clearTimer(m, m.pingTimer), m.reconnectTimer)
           closed == [cleared EXCEPT !.sockets[s] = "closed"]
           left == IF m.sockets[s] = "connected"
                   THEN Emitted(closed, s, "disconnect", "io client disconnect")
                   ELSE closed
       IN  [left EXCEPT !.socket = <<>>, !.isConnected = FALSE]

\* connect(deviceId, address) for the device of the list; ioThrows: io() throws
connect(m, address, ioThrows) ==
  LET dropped == IF SocketConnected(m) THEN disconnect(m) ELSE m
      cleared == clearTimer(clearTimer(dropped, dropped.reconnectTimer),
                            dropped.pingTimer)
  IN  IF ioThrows THEN scheduleReconnect(cleared, address)
      ELSE [cleared EXCEPT
              !.socket = <<cleared.nextId>>,
              !.sockets = MapSet(@, cleared.nextId, "connecting"),
              !.nextId = @ + 1]

\* the rest of a handler, after its await
Resumed(m, waiting) ==
  LET taken == [m EXCEPT !.awaiting = @ \ {waiting}]
  IN  CASE waiting.event = "connect" -> startPingInterval(taken)
        [] waiting.event = "disconnect" ->
             scheduleReconnect(clearTimer(taken, taken.pingTimer), KidsDevice.address)
        [] OTHER -> scheduleReconnect(taken, KidsDevice.address)

ConnUnchanged ==
  UNCHANGED <<isLocal, keyVars, jwtVars, tfaVars, csrfVars, wafVars, limVars,
              pipeVars, scanVars, loginVars>>

ConnInit ==
  /\ isLocal \in BOOLEAN
  /\ KeysIdle /\ JwtIdle /\ TfaIdle /\ CsrfIdle /\ WafIdle
  /\ LimIdle /\ PipeIdle /\ ScanIdle /\ LoginIdle
  /\ kc = NewManager
  /\ kcDisconnected = FALSE
  /\ kcReconnects = FALSE

\* the app calls connect(deviceId, address)
KcConnect ==
  /\ kc.nextId < MaxIds
  /\ \E ioThrows \in BOOLEAN :
       kc' = connect(kc, KidsDevice.address, ioThrows)
  /\ kcDisconnected' = FALSE
  /\ kcReconnects' = FALSE
  /\ ConnUnchanged

\* the app calls disconnect()
KcDisconnect ==
  /\ kc' = disconnect(kc)
  /\ kcDisconnected' = TRUE
  /\ kcReconnects' = FALSE
  /\ ConnUnchanged

\* the transport of a socket opens: 'connect'
KcSocketConnect ==
  /\ \E s \in DOMAIN kc.sockets :
       /\ kc.sockets[s] = "connecting"
       /\ kc' = Emitted([kc EXCEPT !.sockets[s] = "connected"], s, "connect", "")
  /\ UNCHANGED <<kcDisconnected, kcReconnects>>
  /\ ConnUnchanged

\* the connection of a socket is lost: 'disconnect'
KcSocketDisconnect ==
  /\ \E s \in DOMAIN kc.sockets :
       /\ kc.sockets[s] = "connected"
       /\ kc' = Emitted([kc EXCEPT !.sockets[s] = "closed"], s, "disconnect", "transport close")
  /\ UNCHANGED <<kcDisconnected, kcReconnects>>
  /\ ConnUnchanged

\* a socket fails to connect: 'connect_error'
KcSocketConnectError ==
  /\ \E s \in DOMAIN kc.sockets :
       /\ kc.sockets[s] = "connecting"
       /\ kc' = Emitted([kc EXCEPT !.sockets[s] = "closed"], s, "connect_error", "")
  /\ UNCHANGED <<kcDisconnected, kcReconnects>>
  /\ ConnUnchanged

\* saveDevices() has settled: a handler goes on after its await
KcHandlerResumes ==
  /\ kc.nextId < MaxIds
  /\ \E waiting \in kc.awaiting : kc' = Resumed(kc, waiting)
  /\ UNCHANGED <<kcDisconnected, kcReconnects>>
  /\ ConnUnchanged

\* the reconnect timeout fires: this.connect(deviceId, address)
KcReconnectTimerFires ==
  /\ kc.nextId < MaxIds
  /\ \E t \in kc.timers, ioThrows \in BOOLEAN :
       /\ t.kind = "reconnect"
       /\ kc' = connect([kc EXCEPT !.timers = @ \ {t}], KidsDevice.address, ioThrows)
  /\ kcReconnects' = kcDisconnected
  /\ UNCHANGED kcDisconnected
  /\ ConnUnchanged

\* the ping interval fires: it clears this.pingTimer when there is no connected
\* socket, and sends a ping otherwise
KcPingTimerFires ==
  /\ \E t \in kc.timers :
       /\ t.kind = "ping"
       /\ ~SocketConnected(kc)
       /\ kc' = clearTimer(kc, kc.pingTimer)
  /\ UNCHANGED <<kcDisconnected, kcReconnects>>
  /\ ConnUnchanged

ConnNext ==
  \/ KcConnect
  \/ KcDisconnect
  \/ KcSocketConnect
  \/ KcSocketDisconnect
  \/ KcSocketConnectError
  \/ KcHandlerResumes
  \/ KcReconnectTimerFires
  \/ KcPingTimerFires

SpecConnection == ConnInit /\ [][ConnNext]_vars

ReconnectTimers == {t \in kc.timers : t.kind = "reconnect"}

\* the handlers of 'disconnect' events that socket.disconnect() emitted and that
\* wait at their await
OwnDisconnects ==
  {w \in kc.awaiting : w.event = "disconnect" /\ w.reason = "io client disconnect"}

\* C38: after disconnect(), until the app calls connect() again, no reconnect timer is
\* pending and the reconnect timer makes no connect() call; the handler of the
\* 'disconnect' event that disconnect() emitted leaves no reconnect timer pending when
\* it finishes; and never more than one reconnect timer is pending.
C38_NoReconnectAfterDisconnect ==
  /\ [](kcDisconnected => (ReconnectTimers = {} /\ ~kcReconnects))
  /\ [][\A w \in OwnDisconnects :
          (kcDisconnected /\ kc' = Resumed(kc, w)) => ReconnectTimers' = {}]_vars
  /\ [](Cardinality(ReconnectTimers) <= 1)

\* C38, the handler alone: the handler of the 'disconnect' event that disconnect()
\* emitted leaves no reconnect timer pending when it finishes.
C38_OwnHandlerLeavesNoTimer ==
  [][\A w \in OwnDisconnects :
       (kcDisconnected /\ kc' = Resumed(kc, w)) => ReconnectTimers' = {}]_vars

\* the part of C38 the code keeps: at most one reconnect timer is pending, and it is
\* the one this.reconnectTimer names
C38_AtMostOneReconnectTimer ==
  /\ Cardinality(ReconnectTimers) <= 1
  /\ \A t \in ReconnectTimers : kc.reconnectTimer = <<t.handle>>

\* disconnect() closed the one connected socket, no handler waits any more, and the
\* timer the 'disconnect' handler set is pending: socket 1, timer 2 (the ping
\* interval), timer 3
C38_HandlerLeavesTimer ==
  /\ kcDisconnected
  /\ kc.socket = <<>>
  /\ kc.awaiting = {}
  /\ DOMAIN kc.sockets = {1}
  /\ kc.sockets[1] = "closed"
  /\ kc.pingTimer = <<2>>
  /\ kc.timers = {[handle |-> 3, kind |-> "reconnect"]}

\* after disconnect() the reconnect timer has fired and made a new socket
C38_ReconnectedAfterDisconnect ==
  /\ kcDisconnected
  /\ kcReconnects
  /\ kc.socket # <<>>

====
